---- MODULE Spec2Model ----
(***************************************************************************)
(* GrapheneRPCPool and the GrapheneRPC instances it creates                *)
(* (src/unnamed/part_000, lines 1-886).                                    *)
(*                                                                         *)
(* JavaScript runs one job at a time.  An action of this model is one      *)
(* synchronous block of the source, from one suspension point (await,      *)
(* timer, socket event) to the next.  A task whose awaited promise is      *)
(* already settled is "ready" (its continuation is in the microtask        *)
(* queue); timers, socket events and new operations are macrotasks and     *)
(* run only when no task is ready.                                         *)
(***************************************************************************)
EXTENDS Integers, Sequences, FiniteSets, TLC

\* ---------------------------------------------------------------- bounds
NumCallers == 2
MaxNodes == 3
MaxSockets == 3
MaxOps == 2
MaxRpcSockets == 11
MaxRequests == 2
MaxConnects == 1
MaxIds == 181
MaxPages == 3
MaxTrades == 3
NumRuns == 2

\* ------------------------------------------------------ program constants
maxRetries == 3
maxReconnectAttempts == 10
ChunkSize == 90
CHUNK_SIZE == 10000
DefaultCap == 1000000
reconnectDelay == 1000

Callers == 1..NumCallers
InstIds == 1..MaxSockets

\* JavaScript null and undefined, as instance references
Null == 0
Undefined == 0 - 1

\* ------------------------------------------------------------- messages
\* An Error message is a sequence of fragments; a wrapping error appends the
\* wrapped message to its own fragment.
ConnectionPatterns ==
    {"Not connected", "timeout", "Connection closed", "WebSocket error",
     "Connection timeout", "failed to connect"}

\* the patterns of ConnectionPatterns that occur (case-sensitively) in a fragment
Contains(frag) ==
    CASE frag = "GrapheneRPC: WebSocket error: " -> {"WebSocket error"}
      [] frag = "GrapheneRPC: Connection timeout after 10000 ms" -> {"timeout", "Connection timeout"}
      [] frag = "Not connected to node" -> {"Not connected"}
      [] frag = "Request timeout" -> {"timeout"}
      [] frag = "RPC call timeout after 3000ms" -> {"timeout"}
      [] frag = "Connection closed by user" -> {"Connection closed"}
      [] OTHER -> {}

WsErrorMsg == <<"GrapheneRPC: WebSocket error: ">>
ConnTimeoutMsg == <<"GrapheneRPC: Connection timeout after 10000 ms">>
NotConnectedMsg == <<"Not connected to node">>
RequestTimeoutMsg == <<"Request timeout">>
RpcTimeoutMsg == <<"RPC call timeout after 3000ms">>
NoActiveMsg == <<"No active connection available">>
CannotSwitchMsg == <<"Cannot switch nodes while connection is in progress">>
RpcErrorMsg == <<"RPC call failed">>
TypeErrorMsg == <<"Cannot read properties of null">>
ParseErrorMsg == <<"Unexpected token in JSON">>
DataErrors == {<<"zero price in history">>, <<"no history">>}
AllNodesFailedMsg(last) == <<"Failed to connect to any node after n attempts. Last error: ">> \o last
RetryExhaustedMsg(last) == <<"RPC call failed after 3 retries: ">> \o last

includes(msg, pat) == \E k \in DOMAIN msg : pat \in Contains(msg[k])

\* every error is taken for a connection error
anyError(msg) == TRUE

isConnectionError(msg) == \E pat \in ConnectionPatterns : includes(msg, pat)

\* ----------------------------------------------------------------- state
VARIABLES
    nodes,              \* GrapheneRPCPool.nodes: the number of endpoints, endpoint k being nodes[k]
    currentNodeIndex,   \* GrapheneRPCPool.currentNodeIndex
    activeInstance,     \* GrapheneRPCPool.activeInstance (Null or an instance id)
    isConnecting,       \* GrapheneRPCPool.isConnecting
    connectionLock,     \* GrapheneRPCPool.connectionLock (Null or a lock id)
    connectionQueue,    \* GrapheneRPCPool.connectionQueue (the locks' resolve/reject pairs)
    nodeHealth,         \* GrapheneRPCPool.nodeHealth, per endpoint
    inst,               \* every GrapheneRPC the pool has constructed
    ninst,              \* number of GrapheneRPC instances constructed
    nlocks,             \* number of lock promises created
    nsock,              \* number of WebSocket objects constructed
    ops,                \* number of pool operations invoked so far
    failovers,          \* per instance, how many failovers were run against it
    task,               \* the logical callers: position and locals of each
    gobj,               \* one call of getObjects / getObjectsByName: its locals
    drain,              \* one call of queryElasticsearchWithPagination / getPoolSwaps
    loadingCandles,     \* main.js: let loadingCandles
    tc,                 \* one call of tradesToCandles: its arguments and result
    runs                \* the runs of updateChart (books.js): position and drain of each

poolVars == <<nodes, currentNodeIndex, activeInstance, isConnecting, connectionLock,
              connectionQueue, nodeHealth, inst, ninst, nlocks, nsock,
              ops, failovers, task>>

\* the state of the sequential functions, which the pool does not touch
aux == <<gobj, drain, loadingCandles, tc, runs>>

vars == <<nodes, currentNodeIndex, activeInstance, isConnecting, connectionLock,
          connectionQueue, nodeHealth, inst, ninst, nlocks, nsock,
          ops, failovers, task, aux>>

\* no call of a sequential function is under way
NoCall == [pc |-> "none"]
AuxIdle ==
    gobj = NoCall /\ drain = NoCall /\ loadingCandles = FALSE /\ tc = NoCall /\ runs = NoCall

\* ---------------------------------------------------- GrapheneRPC (pure)
\* ws: readyState of this.ws; gen: which socket of the instance this.ws is;
\* connectionPromise: state of this.connectionPromise; cp: state of the
\* promise made by the constructor's connect() (the one the pool awaits);
\* everOpen: whether a socket of the instance ever signalled ready.  The
\* handshake timer of a socket is pending while the socket is CONNECTING:
\* onopen and onerror clear it, and a socket closed by ws.close() dispatches
\* its error event well within the 10 s of the timer.
\* rcTimers: pending reconnect timers; rcDelay: the delay of the timer set
\* last; evq: the closures of sockets closed by ws.close() whose events have
\* not been dispatched yet ("failed": error event then close event 1006;
\* "closed": close event, code set by the peer); pingInterval: whether the
\* keepalive interval is set; reqs: the queries sent so far, in order;
\* refused: the errors of the queries rejected before anything was sent;
\* pings: the number of keepalive probes logged as successful;
\* connects: the number of connect() calls made from outside; got: whether
\* the last of them returned the promise there was before the call ("same")
\* or one it made ("new").
NoInstance ==
    [url |-> 0, connected |-> FALSE, ws |-> "none", gen |-> 0, cp |-> "none",
     cpErr |-> <<>>, everOpen |-> FALSE, reconnectAttempts |-> 0, rcTimers |-> 0,
     evq |-> <<>>, connectionPromise |-> "null", pingInterval |-> FALSE,
     rcDelay |-> 0, requestId |-> 0, reqs |-> <<>>, refused |-> <<>>, pings |-> 0,
     connects |-> 0, got |-> "none", userClosed |-> FALSE]

\* new WebSocket(url) inside connect(): a socket in CONNECTING with its timer
OpenSocket(r) ==
    [r EXCEPT !.ws = "connecting", !.gen = @ + 1]

\* this.ws.close(): the socket leaves CONNECTING/OPEN; its events come later
WsClose(r) ==
    CASE r.ws = "connecting" ->
            [r EXCEPT !.ws = "closed", !.evq = Append(@, [k |-> "failed", g |-> r.gen])]
      [] r.ws = "open" ->
            [r EXCEPT !.ws = "closed", !.evq = Append(@, [k |-> "closed", g |-> r.gen])]
      [] OTHER -> r

stopPing(r) == [r EXCEPT !.pingInterval = FALSE]

startPing(r) == [stopPing(r) EXCEPT !.pingInterval = TRUE]

\* connect() that makes a new promise whatever this.connectionPromise is
connectAlways(r) ==
    [OpenSocket(IF r.ws # "none" THEN stopPing(WsClose(r)) ELSE r)
        EXCEPT !.connectionPromise = "pending"]

connect(r) ==
    IF r.connectionPromise # "null" THEN r
    ELSE [OpenSocket(IF r.ws # "none" THEN stopPing(WsClose(r)) ELSE r)
             EXCEPT !.connectionPromise = "pending"]

\* the constructor; cp is the promise its connect() makes
GrapheneRPC(url) ==
    connect([NoInstance EXCEPT !.url = url, !.requestId = 1, !.cp = "pending"])

\* attemptReconnect without the test of maxReconnectAttempts
attemptReconnectUnbounded(r) ==
    [r EXCEPT !.reconnectAttempts = @ + 1, !.rcTimers = @ + 1,
              !.rcDelay = reconnectDelay * (r.reconnectAttempts + 1)]

attemptReconnect(r) ==
    IF r.reconnectAttempts >= maxReconnectAttempts THEN r
    ELSE [r EXCEPT !.reconnectAttempts = @ + 1, !.rcTimers = @ + 1,
                   !.rcDelay = reconnectDelay * (r.reconnectAttempts + 1)]

handleConnectionError(r) == attemptReconnect(stopPing([r EXCEPT !.connected = FALSE]))

handleConnectionClose(r, normal) ==
    IF normal THEN stopPing([r EXCEPT !.connected = FALSE])
    ELSE attemptReconnect(stopPing([r EXCEPT !.connected = FALSE]))

\* reject(...) of the connect() call that made socket g
RejectConnect(r, g, msg) ==
    [r EXCEPT !.cp = IF g = 1 /\ @ = "pending" THEN "rejected" ELSE @,
              !.cpErr = IF g = 1 /\ r.cp = "pending" THEN msg ELSE @,
              !.connectionPromise = IF g = r.gen /\ @ = "pending" THEN "rejected" ELSE @]

\* ws.onerror of socket g
onerror(r, g) ==
    RejectConnect(handleConnectionError(r), g, WsErrorMsg)

\* a socket that failed dispatches error, then close with code 1006
socketFailed(r, g) == handleConnectionClose(onerror(r, g), FALSE)

\* ws.onopen of the current socket
onopen(r) ==
    [startPing(r) EXCEPT
        !.connected = TRUE, !.reconnectAttempts = 0, !.everOpen = TRUE, !.ws = "open",
        !.cp = IF r.gen = 1 /\ @ = "pending" THEN "resolved" ELSE @,
        !.connectionPromise = IF @ = "pending" THEN "resolved" ELSE @]

\* the handshake timer without "this.ws.close()"
handshakeTimeoutNoClose(r, g) ==
    IF r.connected THEN r
    ELSE RejectConnect(handleConnectionError(r), g, ConnTimeoutMsg)

\* the handshake timer of socket g fires
handshakeTimeout(r, g) ==
    IF r.connected THEN r
    ELSE RejectConnect(handleConnectionError(WsClose(r)), g, ConnTimeoutMsg)

\* the reconnect timer fires: connectionPromise = null; connect()
reconnectTimer(r) == connect([r EXCEPT !.rcTimers = @ - 1, !.connectionPromise = "null"])

\* GrapheneRPC.close()
close(r) == [WsClose(stopPing(r)) EXCEPT !.connected = FALSE]

\* A query that was sent: id: its requestId; g: the socket it was sent on and
\* its listener was added to; lis: the listener is still registered there;
\* tmr: its timer is pending; st, err: the state of the promise query()
\* returned; ping: the query is a keepalive probe.
Request(id, g, ping) ==
    [id |-> id, g |-> g, lis |-> TRUE, tmr |-> TRUE, st |-> "pending", err |-> <<>>,
     ping |-> ping]

\* resolve(...) / reject(...) of a query's promise: a settled promise stays as it is
Settle(q, st, err) == IF q.st = "pending" THEN [q EXCEPT !.st = st, !.err = err] ELSE q

\* The requests become new.  A probe that settles, either way, ends the
\* await of getObjects (which catches the error of its query and returns),
\* and the interval callback logs a successful ping.
SetRequests(r, new) ==
    [r EXCEPT !.reqs = new,
              !.pings = @ + Cardinality({k \in DOMAIN new :
                                           /\ new[k].ping /\ r.reqs[k].st = "pending"
                                           /\ new[k].st # "pending"})]

\* query() that issues the id without advancing this.requestId
queryReusingId(r, ping) ==
    IF ~r.connected \/ r.ws # "open" THEN [r EXCEPT !.refused = Append(@, NotConnectedMsg)]
    ELSE [r EXCEPT !.reqs = Append(@, Request(r.requestId, r.gen, ping))]

\* query() that takes its requestId before it looks at the connection
queryCountingFirst(r, ping) ==
    IF ~r.connected \/ r.ws # "open"
    THEN [r EXCEPT !.requestId = @ + 1, !.refused = Append(@, NotConnectedMsg)]
    ELSE [r EXCEPT !.requestId = @ + 1,
                   !.reqs = Append(@, Request(r.requestId, r.gen, ping))]

\* query(): rejected at once, or sent with a listener and a timer
query(r, ping) ==
    IF ~r.connected \/ r.ws # "open" THEN [r EXCEPT !.refused = Append(@, NotConnectedMsg)]
    ELSE [r EXCEPT !.requestId = @ + 1,
                   !.reqs = Append(@, Request(r.requestId, r.gen, ping))]

\* every listener of the current socket settles its query with this response
listenerAny(r, id, hasResult) ==
    SetRequests(r, [k \in DOMAIN r.reqs |->
        LET q == r.reqs[k] IN
        IF q.lis /\ q.g = r.gen
        THEN Settle([q EXCEPT !.lis = FALSE],
                    IF hasResult THEN "resolved" ELSE "rejected",
                    IF hasResult THEN <<>> ELSE RpcErrorMsg)
        ELSE q])

\* a response with this id reaches the listeners of the current socket
listener(r, id, hasResult) ==
    SetRequests(r, [k \in DOMAIN r.reqs |->
        LET q == r.reqs[k] IN
        IF q.lis /\ q.g = r.gen /\ q.id = id
        THEN Settle([q EXCEPT !.lis = FALSE],
                    IF hasResult THEN "resolved" ELSE "rejected",
                    IF hasResult THEN <<>> ELSE RpcErrorMsg)
        ELSE q])

\* a message that is not JSON reaches the listeners of the current socket
listenerParseError(r) ==
    SetRequests(r, [k \in DOMAIN r.reqs |->
        LET q == r.reqs[k] IN
        IF q.lis /\ q.g = r.gen THEN Settle(q, "rejected", ParseErrorMsg) ELSE q])

\* the timer of request k fires without rejecting
requestTimeoutSilent(r, k) ==
    SetRequests(r, [r.reqs EXCEPT ![k] =
        [@ EXCEPT !.tmr = FALSE, !.lis = IF r.reqs[k].g = r.gen THEN FALSE ELSE @]])

\* the timer of request k fires: this.ws.removeEventListener; reject
requestTimeout(r, k) ==
    SetRequests(r, [r.reqs EXCEPT ![k] =
        Settle([@ EXCEPT !.tmr = FALSE, !.lis = IF r.reqs[k].g = r.gen THEN FALSE ELSE @],
               "rejected", RequestTimeoutMsg)])

\* the callback of the keepalive interval, up to its await
pingTick(r) ==
    IF ~r.connected \/ r.ws # "open" THEN stopPing(r) ELSE query(r, TRUE)

\* ------------------------------------------------------ GrapheneRPCPool
\* The operators below are the synchronous blocks of the pool's methods, as
\* functions from pool state to pool state, run on behalf of task c.

\* what an operation, or an awaited async method, yields
None == [k |-> "none", v |-> Null, err |-> <<>>]
Instance(i) == [k |-> "instance", v |-> i, err |-> <<>>]
Result == [k |-> "result", v |-> Null, err |-> <<>>]
Err(msg) == [k |-> "error", v |-> Null, err |-> msg]

\* lastSuccess: the time of the last success, 0 while there was none;
\* lastAttempted: the time the endpoint was last attempted, 0 likewise
NoHealth ==
    [errorCount |-> 0, consecutiveFailures |-> 0, lastSuccess |-> 0, lastAttempted |-> 0]

\* pc: where the task is suspended; frame: the method that awaits the result
\* of getActiveInstance/_connectWithLock; cur, retryCount, lastError: locals
\* of _callWithFailover; rinst, rhealth, attempts, rlastErr: locals of
\* _connectToNextNodeInternal; rtried: the endpoints it has tried so far;
\* wlock: the lock promise the task awaits, or created; cgen: the socket the
\* pending query was sent on; op, res: the task's last operation, its outcome.
IdleTask ==
    [pc |-> "idle", op |-> "none", frame |-> "none", cur |-> Undefined, retryCount |-> 0,
     lastError |-> <<>>, wlock |-> Null, rinst |-> Null, rhealth |-> NoHealth,
     attempts |-> 0, rlastErr |-> <<>>, rtried |-> <<>>, cgen |-> 0, res |-> None]

State ==
    [idx |-> currentNodeIndex, active |-> activeInstance, conn |-> isConnecting,
     lock |-> connectionLock, queue |-> connectionQueue, health |-> nodeHealth,
     inst |-> inst, ninst |-> ninst, nsock |-> nsock, nlocks |-> nlocks,
     failovers |-> failovers, now |-> ops,
     task |-> task, overflow |-> FALSE]

Commit(S) ==
    /\ ~S.overflow
    /\ currentNodeIndex' = S.idx
    /\ activeInstance' = S.active
    /\ isConnecting' = S.conn
    /\ connectionLock' = S.lock
    /\ connectionQueue' = S.queue
    /\ nodeHealth' = S.health
    /\ inst' = S.inst
    /\ ninst' = S.ninst
    /\ nsock' = S.nsock
    /\ nlocks' = S.nlocks
    /\ failovers' = S.failovers
    /\ task' = S.task
    /\ UNCHANGED aux

Range(q) == {q[k] : k \in DOMAIN q}

\* the index is left where it is
sameNodeIndex(S) == S.idx

\* (this.currentNodeIndex + 1) % this.nodes.length
nextNodeIndex(S) == (S.idx + 1) % nodes

\* the operation of task c is over with outcome val
Finish(S, c, val) ==
    [S EXCEPT !.task[c] =
        [IdleTask EXCEPT !.res = val, !.op = S.task[c].op,
                         !.wlock = IF S.task[c].frame \in {"get", "switch"}
                                   THEN S.task[c].wlock ELSE Null]]

\* getActiveInstance/_connectWithLock yields val to the method awaiting it
RECURSIVE returned(_, _, _)

\* this.activeInstance.close(); this.activeInstance = null
closeActive(S) ==
    IF S.active # Null
    THEN [S EXCEPT !.inst[S.active] = close(@), !.active = Null]
    ELSE S

_createConnectionLock(S) ==
    [S EXCEPT !.nlocks = @ + 1, !.queue = Append(@, S.nlocks + 1), !.lock = S.nlocks + 1]

\* one iteration of the while loop of _connectToNextNodeInternal, up to the await
connectIteration(S, c) ==
    IF S.nsock >= MaxSockets THEN [S EXCEPT !.overflow = TRUE]
    ELSE LET id == S.ninst + 1 IN
         [S EXCEPT !.ninst = id, !.nsock = @ + 1,
                   !.inst[id] = GrapheneRPC(S.idx), !.active = id,
                   !.task[c].pc = "rot_hs", !.task[c].rinst = id,
                   !.task[c].rhealth = S.health[S.idx],
                   !.health[S.idx].lastAttempted = S.now,
                   !.task[c].rtried = Append(@, S.idx)]

_connectToNextNodeInternal(S, c) ==
    connectIteration([closeActive(S) EXCEPT !.task[c].attempts = 0,
                                            !.task[c].rlastErr = <<>>,
                                            !.task[c].rtried = <<>>], c)

\* getActiveInstance when it finds a connected instance or an attempt underway
getActiveInstanceJoin(S, c) ==
    IF S.active # Null /\ S.inst[S.active].connected
    THEN returned([S EXCEPT !.task[c].wlock = Null], c, Instance(S.active))
    ELSE LET S1 == IF S.lock = Null THEN _createConnectionLock(S) ELSE S IN
         [S1 EXCEPT !.task[c].pc = "waiting", !.task[c].wlock = S1.lock]

\* _connectWithLock without "this.isConnecting = true"
_connectWithLockNoFlag(S, c) ==
    IF S.conn THEN getActiveInstanceJoin(S, c)
    ELSE LET S1 == _createConnectionLock(S) IN
         _connectToNextNodeInternal([S1 EXCEPT !.task[c].wlock = S1.lock], c)

_connectWithLock(S, c) ==
    IF S.conn THEN getActiveInstanceJoin(S, c)
    ELSE LET S1 == _createConnectionLock([S EXCEPT !.conn = TRUE]) IN
         _connectToNextNodeInternal([S1 EXCEPT !.task[c].wlock = S1.lock], c)

getActiveInstance(S, c) ==
    IF (S.active # Null /\ S.inst[S.active].connected) \/ S.conn
    THEN getActiveInstanceJoin(S, c)
    ELSE _connectWithLock(S, c)

\* the tasks awaiting a lock whose resolve/reject pair is in the queue
Waiters(S) == {w \in Callers : S.task[w].pc = "waiting" /\ S.task[w].wlock \in Range(S.queue)}

\* each task of ws resumes: at "return this.activeInstance" if its lock was
\* resolved, with the error thrown at its await if it was rejected
RECURSIVE Release(_, _, _)
Release(S, ws, val) ==
    IF ws = {} THEN S
    ELSE LET w == CHOOSE x \in ws : TRUE IN
         Release(returned(S, w, IF val.k = "error" THEN val ELSE Instance(S.active)),
                 ws \ {w}, val)

\* the queue is emptied without calling its resolve functions
_resolveConnectionQueueDropped(S, val) == [S EXCEPT !.queue = <<>>]

_resolveConnectionQueue(S, val) == Release([S EXCEPT !.queue = <<>>], Waiters(S), val)

_rejectConnectionQueue(S, val) == Release([S EXCEPT !.queue = <<>>], Waiters(S), val)

\* _connectWithLock after its await: settle the queue, release the flag and the
\* lock, return; the continuations of the waiters run first, then the caller's
connectWithLockDone(S, c, val) ==
    LET S1 == [S EXCEPT !.conn = FALSE, !.lock = Null]
        S2 == IF val.k = "error" THEN _rejectConnectionQueue(S1, val)
              ELSE _resolveConnectionQueue(S1, val)
    IN returned(S2, c, val)

\* _connectToNextNodeInternal after the await of the instance's connectionPromise
connectSettled(S, c) ==
    LET t == S.task[c]
        r == S.inst[t.rinst]
        url == t.rtried[Len(t.rtried)]
        good == r.cp = "resolved" /\ S.active # Null
        e == IF r.cp = "rejected" THEN r.cpErr ELSE TypeErrorMsg
    IN
    IF good
    THEN connectWithLockDone(
             [S EXCEPT !.health[url] = [t.rhealth EXCEPT !.errorCount = 0,
                                                         !.consecutiveFailures = 0,
                                                         !.lastSuccess = S.now]],
             c, Instance(S.active))
    ELSE LET S1 == [S EXCEPT !.health[url] =
                                 [t.rhealth EXCEPT !.errorCount = @ + 1,
                                                   !.consecutiveFailures = @ + 1],
                             !.idx = nextNodeIndex(S),
                             !.task[c].attempts = @ + 1,
                             !.task[c].rlastErr = e]
         IN
         IF t.attempts + 1 < nodes
         THEN [S1 EXCEPT !.task[c].pc = "rot_sleep"]
         ELSE connectWithLockDone([S1 EXCEPT !.active = Null], c, Err(AllNodesFailedMsg(e)))

\* the failing instance is not compared with the active one
AlwaysActive(S, c) == TRUE

\* the two tests "currentInstance === this.activeInstance" (lines 756, 777)
StillActive(S, c) == S.task[c].cur = S.active

_triggerFailover(S, c) ==
    LET ci == S.task[c].cur
        S1 == IF ci > Null
              THEN [S EXCEPT !.health[S.inst[ci].url].consecutiveFailures = @ + 1,
                             !.health[S.inst[ci].url].lastAttempted = S.now,
                             !.idx = nextNodeIndex(S),
                             !.failovers[ci] = @ + 1]
              ELSE S
    IN
    _connectWithLock([closeActive(S1) EXCEPT !.task[c].frame = "failover"], c)

\* end of the catch block: sleep before the next attempt, or leave the loop
afterCatch(S, c) ==
    IF S.task[c].retryCount < maxRetries
    THEN [S EXCEPT !.task[c].pc = "call_sleep", !.task[c].frame = "call"]
    ELSE Finish(S, c, Err(RetryExhaustedMsg(S.task[c].lastError)))

\* the catch block of _callWithFailover
catch(S, c, msg) ==
    LET S1 == [S EXCEPT !.task[c].lastError = msg, !.task[c].retryCount = @ + 1,
                        !.task[c].cgen = 0]
    IN
    IF isConnectionError(msg) /\ StillActive(S1, c)
    THEN _triggerFailover(S1, c)
    ELSE afterCatch(S1, c)

\* _callWithFailover after "await this.getActiveInstance()", up to the race
callAttempt(S, c, val) ==
    IF val.k = "error" THEN catch(S, c, val.err)
    ELSE LET S1 == [S EXCEPT !.task[c].cur = val.v] IN
         IF val.v = Null \/ ~S.inst[val.v].connected
         THEN catch(S1, c, NoActiveMsg)
         ELSE IF S.inst[val.v].ws # "open"
              THEN IF S.task[c].op = "getObjects"
                   THEN [S1 EXCEPT !.task[c].pc = "objects_done"]
                   ELSE [S1 EXCEPT !.task[c].pc = "catch",
                                   !.task[c].lastError = NotConnectedMsg]
              ELSE [S1 EXCEPT !.task[c].pc = "call_wait", !.task[c].cgen = S.inst[val.v].gen]

returned(S, c, val) ==
    LET f == S.task[c].frame
        S1 == [S EXCEPT !.task[c].rinst = Null, !.task[c].rhealth = NoHealth,
                        !.task[c].attempts = 0, !.task[c].rlastErr = <<>>,
                        !.task[c].rtried = <<>>,
                        !.task[c].wlock = IF f \in {"get", "switch"} THEN @ ELSE Null]
    IN
    CASE f = "call" -> callAttempt(S1, c, val)
      [] f = "failover" -> IF val.k = "error" THEN Finish(S1, c, val) ELSE afterCatch(S1, c)
      [] OTHER -> Finish(S1, c, val)

\* the result is returned and the node's record left as it is
callSucceededUnmarked(S, c) == Finish(S, c, Result)

\* "Mark node as healthy" and return the result
callSucceeded(S, c) ==
    LET url == S.inst[S.task[c].cur].url IN
    Finish([S EXCEPT !.health[url].consecutiveFailures = 0,
                     !.health[url].lastSuccess = S.now], c, Result)

\* the next iteration of the while loop of _callWithFailover
nextAttempt(S, c) == getActiveInstance([S EXCEPT !.task[c].lastError = <<>>], c)

\* switchToNextNode without its isConnecting test
switchToNextNodeUnguarded(S, c) ==
    LET S1 == closeActive(S) IN
    _connectWithLock([S1 EXCEPT !.idx = nextNodeIndex(S1), !.task[c].frame = "switch"], c)

switchToNextNode(S, c) ==
    IF S.conn THEN Finish(S, c, Err(CannotSwitchMsg))
    ELSE LET S1 == closeActive(S) IN
         _connectWithLock([S1 EXCEPT !.idx = nextNodeIndex(S1),
                                     !.task[c].frame = "switch"], c)

\* ---------------------------------------------------------------- actions
Init ==
    /\ nodes \in 1..MaxNodes
    /\ currentNodeIndex = 0
    /\ activeInstance = Null
    /\ isConnecting = FALSE
    /\ connectionLock = Null
    /\ connectionQueue = <<>>
    /\ nodeHealth = [n \in 0..(nodes - 1) |-> NoHealth]
    /\ inst = [i \in InstIds |-> NoInstance]
    /\ ninst = 0
    /\ nlocks = 0
    /\ nsock = 0
    /\ ops = 0
    /\ failovers = [i \in InstIds |-> 0]
    /\ task = [c \in Callers |-> IdleTask]
    /\ AuxIdle

\* the continuation of task c is in the microtask queue
Ready(c) ==
    \/ task[c].pc = "catch"
    \/ task[c].pc = "objects_done"
    \/ task[c].pc = "rot_hs" /\ inst[task[c].rinst].cp # "pending"

\* a macrotask (timer, socket event, new call) starts only on an empty microtask queue
Quiet == \A c \in Callers : ~Ready(c)

\* callers are interchangeable: a new operation takes the first free task
FirstIdle(c) == task[c].pc = "idle" /\ \A d \in Callers : d < c => task[d].pc # "idle"

\* a caller invokes pool.getActiveInstance()
CallGetActiveInstance(c) ==
    /\ Quiet /\ FirstIdle(c) /\ ops < MaxOps
    /\ Commit(getActiveInstance([State EXCEPT !.task[c] = [IdleTask EXCEPT !.op = "get", !.frame = "get"]], c))
    /\ UNCHANGED nodes /\ ops' = ops + 1

\* a caller invokes a proxied method: _callWithFailover up to its first await
CallWithFailover(c) ==
    /\ Quiet /\ FirstIdle(c) /\ ops < MaxOps
    /\ Commit(getActiveInstance([State EXCEPT !.task[c] = [IdleTask EXCEPT !.op = "call", !.frame = "call"]], c))
    /\ UNCHANGED nodes /\ ops' = ops + 1

\* a caller invokes pool.switchToNextNode()
CallSwitchToNextNode(c) ==
    /\ Quiet /\ FirstIdle(c) /\ ops < MaxOps
    /\ Commit(switchToNextNode([State EXCEPT !.task[c] = [IdleTask EXCEPT !.op = "switch", !.frame = "switch"]], c))
    /\ UNCHANGED nodes /\ ops' = ops + 1

\* the method rejected at once ("Not connected to node"): the catch block runs
CatchNotConnected(c) ==
    /\ task[c].pc = "catch"
    /\ Commit(catch(State, c, task[c].lastError))
    /\ UNCHANGED <<nodes, ops>>

\* the connectionPromise awaited by _connectToNextNodeInternal has settled
ConnectSettled(c) ==
    /\ task[c].pc = "rot_hs"
    /\ inst[task[c].rinst].cp # "pending"
    /\ Commit(connectSettled(State, c))
    /\ UNCHANGED <<nodes, ops>>

\* the failoverDelay between two endpoints is over
FailoverDelayOver(c) ==
    /\ Quiet /\ task[c].pc = "rot_sleep"
    /\ Commit(connectIteration(State, c))
    /\ UNCHANGED <<nodes, ops>>

\* the delay between two attempts of _callWithFailover is over
RetryDelayOver(c) ==
    /\ Quiet /\ task[c].pc = "call_sleep"
    /\ Commit(nextAttempt(State, c))
    /\ UNCHANGED <<nodes, ops>>

\* the node's response to the pending query arrives on the socket it was sent on
ResponseArrives(c) ==
    LET i == task[c].cur IN
    /\ Quiet /\ task[c].pc = "call_wait"
    /\ inst[i].ws = "open" /\ inst[i].gen = task[c].cgen
    /\ \/ Commit(callSucceeded(State, c))
       \/ \E msg \in DataErrors \cup {RpcErrorMsg} : Commit(catch(State, c, msg))
    /\ UNCHANGED <<nodes, ops>>

\* the race is lost to the pool's timer: timeoutMs (3000) is shorter than the
\* instance's request timeout (10000), so "Request timeout" never wins
CallTimesOut(c) ==
    /\ Quiet /\ task[c].pc = "call_wait"
    /\ Commit(catch(State, c, RpcTimeoutMsg))
    /\ UNCHANGED <<nodes, ops>>

\* the transport of instance i signals ready
WsOpen(i) ==
    /\ Quiet /\ inst[i].ws = "connecting"
    /\ Commit([State EXCEPT !.inst[i] = onopen(@)])
    /\ UNCHANGED <<nodes, ops>>

\* the transport of instance i fails (handshake refused, or connection lost)
WsFail(i) ==
    /\ Quiet /\ inst[i].ws \in {"connecting", "open"}
    /\ Commit([State EXCEPT !.inst[i] = socketFailed([@ EXCEPT !.ws = "closed"], inst[i].gen)])
    /\ UNCHANGED <<nodes, ops>>

\* the node closes the open transport of instance i
WsServerClose(i) ==
    /\ Quiet /\ inst[i].ws = "open"
    /\ \E normal \in BOOLEAN :
          Commit([State EXCEPT !.inst[i] = handleConnectionClose([@ EXCEPT !.ws = "closed"], normal)])
    /\ UNCHANGED <<nodes, ops>>

\* the events of a socket closed by ws.close() reach the instance's handlers
DeliverEvent(i) ==
    /\ Quiet /\ inst[i].evq # <<>>
    /\ LET ev == Head(inst[i].evq)
           r == [inst[i] EXCEPT !.evq = Tail(@)]
       IN
       IF ev.k = "failed"
       THEN Commit([State EXCEPT !.inst[i] = socketFailed(r, ev.g)])
       ELSE \E normal \in BOOLEAN :
               Commit([State EXCEPT !.inst[i] = handleConnectionClose(r, normal)])
    /\ UNCHANGED <<nodes, ops>>

\* the transport of instance i has not signalled ready within the timeout
HandshakeTimeout(i) ==
    /\ Quiet /\ inst[i].ws = "connecting"
    /\ Commit([State EXCEPT !.inst[i] = handshakeTimeout(@, inst[i].gen)])
    /\ UNCHANGED <<nodes, ops>>

ReconnectTimer(i) ==
    /\ Quiet /\ inst[i].rcTimers > 0
    /\ nsock < MaxSockets
    /\ Commit([State EXCEPT !.inst[i] = reconnectTimer(@), !.nsock = @ + 1])
    /\ UNCHANGED <<nodes, ops>>

Next ==
    \/ \E c \in Callers :
          \/ CallGetActiveInstance(c)
          \/ CallWithFailover(c)
          \/ CallSwitchToNextNode(c)
          \/ CatchNotConnected(c)
          \/ ConnectSettled(c)
          \/ FailoverDelayOver(c)
          \/ RetryDelayOver(c)
          \/ ResponseArrives(c)
          \/ CallTimesOut(c)
    \/ \E i \in InstIds :
          \/ WsOpen(i)
          \/ WsFail(i)
          \/ WsServerClose(i)
          \/ DeliverEvent(i)
          \/ HandshakeTimeout(i)
          \/ ReconnectTimer(i)

Spec == Init /\ [][Next]_vars

\* ------------------------------------------------ GrapheneRPCPool.close
ClosedByUserMsg == <<"Connection closed by user">>

\* GrapheneRPCPool.close(): the continuations of the rejected waiters run
\* after the method has returned
poolClose(S) ==
    LET S1 == [closeActive(S) EXCEPT !.conn = FALSE, !.lock = Null] IN
    IF Len(S1.queue) > 0 THEN _rejectConnectionQueue(S1, Err(ClosedByUserMsg)) ELSE S1

\* a caller invokes pool.close()
CallClose ==
    /\ Quiet
    /\ Commit(poolClose(State))
    /\ UNCHANGED <<nodes, ops>>

\* A pool whose callers ask for the active instance and close the pool, at
\* any time and any number of times.
NextPoolClose ==
    \/ CallClose
    \/ \E c \in Callers :
          \/ CallGetActiveInstance(c)
          \/ ConnectSettled(c)
          \/ FailoverDelayOver(c)
    \/ \E i \in InstIds :
          \/ WsOpen(i)
          \/ WsFail(i)
          \/ WsServerClose(i)
          \/ DeliverEvent(i)
          \/ HandshakeTimeout(i)
          \/ ReconnectTimer(i)

SpecPoolClose == Init /\ [][NextPoolClose]_vars

\* a continuation that is ready runs, a timer that is set fires, the events
\* of a closed socket are dispatched, and a handshake settles: by the
\* socket's open or error event, or else by the handshake timer
SpecPoolCloseFair ==
    /\ SpecPoolClose
    /\ \A c \in Callers : WF_vars(ConnectSettled(c)) /\ WF_vars(FailoverDelayOver(c))
    /\ \A i \in InstIds : /\ WF_vars(DeliverEvent(i))
                           /\ WF_vars(WsOpen(i) \/ WsFail(i) \/ HandshakeTimeout(i))

\* ------------------------------- getObjects called through the pool
\* The proxied method is getObjects or getObjectsByName, with a list of at
\* most ChunkSize ids: one chunk, one query.  The method catches the error of
\* its query and resolves with the map it has built.

\* a caller invokes pool.getObjects(objectIds)
CallPooledGetObjects(c) ==
    /\ Quiet /\ FirstIdle(c) /\ ops < MaxOps
    /\ Commit(getActiveInstance([State EXCEPT !.task[c] = [IdleTask EXCEPT !.op = "getObjects", !.frame = "call"]], c))
    /\ UNCHANGED nodes /\ ops' = ops + 1

\* the query rejected at once with "Not connected to node": getObjects has
\* caught it and resolved, the race is won by the method
PooledObjectsReturnsEmpty(c) ==
    /\ task[c].pc = "objects_done"
    /\ Commit(callSucceeded(State, c))
    /\ UNCHANGED <<nodes, ops>>

\* the node's response to the chunk query arrives, with a result or with an
\* error: getObjects resolves in both cases
PooledObjectsResponse(c) ==
    LET i == task[c].cur IN
    /\ Quiet /\ task[c].pc = "call_wait"
    /\ inst[i].ws = "open" /\ inst[i].gen = task[c].cgen
    /\ Commit(callSucceeded(State, c))
    /\ UNCHANGED <<nodes, ops>>

NextPooledObjects ==
    \/ \E c \in Callers :
          \/ CallPooledGetObjects(c)
          \/ PooledObjectsReturnsEmpty(c)
          \/ PooledObjectsResponse(c)
          \/ CallTimesOut(c)
          \/ ConnectSettled(c)
          \/ FailoverDelayOver(c)
          \/ RetryDelayOver(c)
    \/ \E i \in InstIds :
          \/ WsOpen(i)
          \/ WsFail(i)
          \/ WsServerClose(i)
          \/ DeliverEvent(i)
          \/ HandshakeTimeout(i)
          \/ ReconnectTimer(i)

SpecPooledObjects == Init /\ [][NextPooledObjects]_vars

\* ------------------------------------------- a GrapheneRPC used directly
\* One instance made with "new GrapheneRPC(url)" by a caller that sends its
\* own queries; the pool is not used.
InitRPC ==
    /\ nodes = 1
    /\ currentNodeIndex = 0
    /\ activeInstance = Null
    /\ isConnecting = FALSE
    /\ connectionLock = Null
    /\ connectionQueue = <<>>
    /\ nodeHealth = [n \in {0} |-> NoHealth]
    /\ inst = [i \in InstIds |-> IF i = 1 THEN GrapheneRPC(0) ELSE NoInstance]
    /\ ninst = 1
    /\ nlocks = 0
    /\ nsock = 1
    /\ ops = 0
    /\ failovers = [i \in InstIds |-> 0]
    /\ task = [c \in Callers |-> IdleTask]
    /\ AuxIdle

SetInst(i, r) ==
    /\ inst' = [inst EXCEPT ![i] = r]
    /\ UNCHANGED <<nodes, currentNodeIndex, activeInstance, isConnecting, connectionLock,
                   connectionQueue, nodeHealth, ninst, nlocks, nsock, ops, failovers, task,
                   aux>>

\* the keepalive interval is 30 s and a query settles within 10 s: a probe
\* has settled when the next one starts
ProbePending(r) == \E k \in DOMAIN r.reqs : r.reqs[k].ping /\ r.reqs[k].st = "pending"

\* a caller invokes query()
RpcQuery(i) ==
    /\ inst[i].ws # "none"
    /\ Len(inst[i].reqs) + Len(inst[i].refused) < MaxRequests
    /\ SetInst(i, query(inst[i], FALSE))

\* the node answers a query it received on the open socket, with or without
\* a result, in any order and however late
RpcResponse(i) ==
    /\ inst[i].ws = "open"
    /\ \E k \in DOMAIN inst[i].reqs, hasResult \in BOOLEAN :
          /\ inst[i].reqs[k].g = inst[i].gen
          /\ SetInst(i, listener(inst[i], inst[i].reqs[k].id, hasResult))

\* a message that is not JSON arrives on the open socket
RpcMalformed(i) ==
    /\ inst[i].ws = "open"
    /\ \E k \in DOMAIN inst[i].reqs : inst[i].reqs[k].lis /\ inst[i].reqs[k].g = inst[i].gen
    /\ SetInst(i, listenerParseError(inst[i]))

\* the timer of the k-th query fires
RpcRequestTimeout(i, k) ==
    /\ k \in DOMAIN inst[i].reqs
    /\ inst[i].reqs[k].tmr
    /\ SetInst(i, requestTimeout(inst[i], k))

\* the keepalive interval fires
RpcPingTick(i) ==
    /\ inst[i].pingInterval /\ ~ProbePending(inst[i])
    /\ Len(inst[i].reqs) + Len(inst[i].refused) < MaxRequests
    /\ SetInst(i, pingTick(inst[i]))

\* a caller invokes connect()
RpcConnect(i) ==
    /\ inst[i].ws # "none"
    /\ inst[i].connects < MaxConnects
    /\ SetInst(i, [connect(inst[i]) EXCEPT !.connects = @ + 1, !.got = IF connect(inst[i]).gen = inst[i].gen THEN "same" ELSE "new"])

\* a reconnect timer of the instance fires
RpcReconnectTimer(i) ==
    /\ inst[i].rcTimers > 0
    /\ nsock < MaxRpcSockets
    /\ inst' = [inst EXCEPT ![i] = reconnectTimer(@)]
    /\ nsock' = nsock + 1
    /\ UNCHANGED <<nodes, currentNodeIndex, activeInstance, isConnecting, connectionLock,
                   connectionQueue, nodeHealth, ninst, nlocks, ops, failovers, task, aux>>

NextRPC ==
    \E i \in InstIds :
        \/ WsOpen(i)
        \/ WsFail(i)
        \/ WsServerClose(i)
        \/ DeliverEvent(i)
        \/ HandshakeTimeout(i)
        \/ ReconnectTimer(i)
        \/ RpcQuery(i)
        \/ RpcResponse(i)
        \/ RpcMalformed(i)
        \/ \E k \in 1..MaxRequests : RpcRequestTimeout(i, k)
        \/ RpcPingTick(i)
        \/ RpcConnect(i)

SpecRPC == InitRPC /\ [][NextRPC]_vars

\* a timer that is set fires
SpecRPCFair ==
    SpecRPC /\ \A k \in 1..MaxRequests : WF_vars(\E i \in InstIds : RpcRequestTimeout(i, k))

\* The same instance followed through all its reconnects, without queries.
\* A socket closed while CONNECTING never reached the network: its error and
\* close events are dispatched before any timer or network event.
NoFailedEvent(i) == \A k \in DOMAIN inst[i].evq : inst[i].evq[k].k # "failed"

NextReconnect ==
    \E i \in InstIds :
        \/ DeliverEvent(i)
        \/ NoFailedEvent(i) /\ WsOpen(i)
        \/ NoFailedEvent(i) /\ WsFail(i)
        \/ NoFailedEvent(i) /\ WsServerClose(i)
        \/ NoFailedEvent(i) /\ HandshakeTimeout(i)
        \/ NoFailedEvent(i) /\ RpcReconnectTimer(i)
        \/ NoFailedEvent(i) /\ RpcConnect(i)

SpecReconnect == InitRPC /\ [][NextReconnect]_vars

\* One GrapheneRPC instance that its owner may close: the socket events and
\* timers of SpecRPC, without queries, and a call of close().
RpcClose(i) ==
    /\ inst[i].ws # "none" /\ ~inst[i].userClosed
    /\ SetInst(i, [close(inst[i]) EXCEPT !.userClosed = TRUE])

NextClose ==
    \E i \in InstIds :
        \/ WsOpen(i)
        \/ WsFail(i)
        \/ WsServerClose(i)
        \/ DeliverEvent(i)
        \/ HandshakeTimeout(i)
        \/ ReconnectTimer(i)
        \/ RpcClose(i)

SpecClose == InitRPC /\ [][NextClose]_vars

\* ------------------------------- GrapheneRPC.getObjects / getObjectsByName
\* One call of getObjects(objectIds) or getObjectsByName(objectNames); the
\* two methods have the same body and differ in the API method they query.
\* The ids of a list are distinct and are written 1, 2, ...; the object of
\* id x is written x and a null entry Null.  calls is the log of the
\* queries issued: the chunk sent, how the query ended and what it returned.
Min(a, b) == IF a < b THEN a ELSE b

\* Array.prototype.slice(a, b + 1)
sliceInclusive(list, a, b) == SubSeq(list, a + 1, Min(b + 1, Len(list)))

\* Array.prototype.slice(a, b)
slice(list, a, b) == SubSeq(list, a + 1, Min(b, Len(list)))

ApiMethod(method) ==
    IF method = "getObjects" THEN "get_objects" ELSE "lookup_asset_symbols"

\* the for loop from its condition: the next chunk is sent, or the map returned
forLoop(g) ==
    IF g.i < Len(g.objectIds)
    THEN LET chunk == slice(g.objectIds, g.i, g.i + ChunkSize) IN
         [g EXCEPT !.pc = "await", !.chunk = chunk,
                   !.calls = Append(@, [api |-> ApiMethod(g.method), chunk |-> chunk,
                                        st |-> "pending", result |-> <<>>])]
    ELSE [g EXCEPT !.pc = "returned", !.chunk = <<>>]

\* chunk.forEach without the null test
forEachAny(resultMap, chunk, chunkResult) ==
    LET hit == {k \in DOMAIN chunk : k <= Len(chunkResult)} IN
    [id \in DOMAIN resultMap \cup {chunk[k] : k \in hit} |->
        IF \E k \in hit : chunk[k] = id
        THEN chunkResult[CHOOSE k \in hit : chunk[k] = id /\ \A j \in hit : chunk[j] = id => j <= k]
        ELSE resultMap[id]]

\* chunk.forEach((id, idx) => ...): the entries that are there and not null
forEach(resultMap, chunk, chunkResult) ==
    LET hit == {k \in DOMAIN chunk : k <= Len(chunkResult) /\ chunkResult[k] # Null} IN
    [id \in DOMAIN resultMap \cup {chunk[k] : k \in hit} |->
        IF \E k \in hit : chunk[k] = id
        THEN chunkResult[CHOOSE k \in hit : chunk[k] = id /\ \A j \in hit : chunk[j] = id => j <= k]
        ELSE resultMap[id]]

\* the awaited query resolved with chunkResult
chunkResolved(g, chunkResult) ==
    forLoop([g EXCEPT !.resultMap = forEach(@, g.chunk, chunkResult),
                      !.calls[Len(g.calls)].st = "resolved",
                      !.calls[Len(g.calls)].result = chunkResult,
                      !.i = @ + ChunkSize])

\* a catch that throws the error of the chunk on
chunkFailedAborts(g) ==
    [g EXCEPT !.pc = "thrown", !.calls[Len(g.calls)].st = "rejected"]

\* the awaited query rejected: the catch logs it and the loop goes on
chunkFailed(g) ==
    forLoop([g EXCEPT !.calls[Len(g.calls)].st = "rejected", !.i = @ + ChunkSize])

\* what the node answers to a chunk: the objects in the order asked, null
\* for the ones it does not have, possibly fewer entries than ids
NullPatterns == {"none", "even"}
NodeResult(chunk, len, pat) ==
    [k \in 1..len |-> IF pat = "even" /\ k % 2 = 0 THEN Null ELSE chunk[k]]

InitObjects ==
    /\ nodes = 1
    /\ currentNodeIndex = 0
    /\ activeInstance = Null
    /\ isConnecting = FALSE
    /\ connectionLock = Null
    /\ connectionQueue = <<>>
    /\ nodeHealth = [n \in {0} |-> NoHealth]
    /\ inst = [i \in InstIds |-> NoInstance]
    /\ ninst = 0
    /\ nlocks = 0
    /\ nsock = 0
    /\ ops = 0
    /\ failovers = [i \in InstIds |-> 0]
    /\ task = [c \in Callers |-> IdleTask]
    /\ \E n \in 0..MaxIds :
          gobj = [pc |-> "idle", method |-> "none", objectIds |-> [p \in 1..n |-> p],
                  i |-> 0, chunk |-> <<>>, calls |-> <<>>, resultMap |-> <<>>]
    /\ drain = NoCall /\ loadingCandles = FALSE /\ tc = NoCall /\ runs = NoCall

\* a caller invokes getObjects(objectIds) or getObjectsByName(objectNames)
CallGetObjects ==
    /\ gobj.pc = "idle"
    /\ \E method \in {"getObjects", "getObjectsByName"} :
          gobj' = forLoop([gobj EXCEPT !.method = method])
    /\ UNCHANGED <<poolVars, drain, loadingCandles, tc, runs>>

\* the query of the chunk resolves
ChunkQueryResolves ==
    /\ gobj.pc = "await"
    /\ \E len \in {0, Len(gobj.chunk) - 1, Len(gobj.chunk)}, pat \in NullPatterns :
          gobj' = chunkResolved(gobj, NodeResult(gobj.chunk, len, pat))
    /\ UNCHANGED <<poolVars, drain, loadingCandles, tc, runs>>

\* the query of the chunk rejects
ChunkQueryRejects ==
    /\ gobj.pc = "await"
    /\ gobj' = chunkFailed(gobj)
    /\ UNCHANGED <<poolVars, drain, loadingCandles, tc, runs>>

NextObjects == CallGetObjects \/ ChunkQueryResolves \/ ChunkQueryRejects

SpecObjects == InitObjects /\ [][NextObjects]_vars

\* ------------------ queryElasticsearchWithPagination / getPoolSwaps
\* One call of queryElasticsearchWithPagination (main.js) or of getPoolSwaps
\* (pools.js), which is the same loop with the query built in place and
\* without loadingCandles in its condition.  A page of hits is written as
\* one block [len, sort]: how many hits it has and the sort key (a time) of
\* its last hit; allResults is the sequence of the blocks concatenated.
\* requests is the log of the cursors the page requests were built with,
\* pages the log of the answers to them (the total reported, the number of
\* hits, the sort key of the last hit), progress the log of the percentages
\* passed to updateProgress.
PoolIdle ==
    /\ nodes = 1
    /\ currentNodeIndex = 0
    /\ activeInstance = Null
    /\ isConnecting = FALSE
    /\ connectionLock = Null
    /\ connectionQueue = <<>>
    /\ nodeHealth = [n \in {0} |-> NoHealth]
    /\ inst = [i \in InstIds |-> NoInstance]
    /\ ninst = 0
    /\ nlocks = 0
    /\ nsock = 0
    /\ ops = 0
    /\ failovers = [i \in InstIds |-> 0]
    /\ task = [c \in Callers |-> IdleTask]

FetchErrors == {<<"Failed to fetch">>, <<"Elasticsearch error: ">>, <<"Unexpected token in JSON">>}
FetchFailedMsg(msg) == <<"Failed to fetch from Elasticsearch: ">> \o msg

\* the while condition without loadingCandles
whileConditionNoFlag(d, flag) ==
    d.hasMore /\ d.totalFetched < d.maxTotalResults

\* while (hasMore && totalFetched < maxTotalResults && loadingCandles)
whileCondition(d, flag) ==
    /\ d.hasMore /\ d.totalFetched < d.maxTotalResults
    /\ d.fn = "queryElasticsearchWithPagination" => flag

\* the loop from its condition: the next page is requested with the cursor,
\* or allResults is returned
whileLoop(d, flag) ==
    IF whileCondition(d, flag)
    THEN [d EXCEPT !.pc = "fetch", !.requests = Append(@, d.lastSortValue)]
    ELSE [d EXCEPT !.pc = "returned", !.ret = d.allResults]

\* the page is the last one only when the cap is reached
lastPageByCapOnly(len, totalFetched, maxTotalResults) == totalFetched >= maxTotalResults

\* currentResults.length < CHUNK_SIZE || totalFetched >= maxTotalResults
lastPage(len, totalFetched, maxTotalResults) ==
    len < CHUNK_SIZE \/ totalFetched >= maxTotalResults

\* the cursor is left as it was
keptSortValue(d, hits) == d.lastSortValue

\* currentResults[currentResults.length - 1].sort
nextSortValue(d, hits) == hits.sort

\* (1 - ((lastSortValue[0] - startMs) / (stopMs - startMs))) * 100
progressOf(lastSortValue, startMs, stopMs) ==
    (((stopMs - startMs) - (lastSortValue - startMs)) * 100) \div (stopMs - startMs)

\* the body of the try after "await response.json()", the progress report
\* and the next turn of the loop
pageArrives(d, flag, total, hits) ==
    IF d.lastSortValue = Null /\ total = 0
    THEN [d EXCEPT !.pc = "returned", !.ret = <<>>,
                   !.pages = Append(@, [total |-> total, len |-> hits.len, sort |-> hits.sort])]
    ELSE LET fetched == d.totalFetched + hits.len
             last == lastPage(hits.len, fetched, d.maxTotalResults)
             cursor == IF last THEN d.lastSortValue ELSE nextSortValue(d, hits)
         IN
         whileLoop([d EXCEPT
             !.pages = Append(@, [total |-> total, len |-> hits.len, sort |-> hits.sort]),
             !.allResults = IF hits.len = 0 THEN @ ELSE Append(@, hits),
             !.totalFetched = fetched,
             !.hasMore = IF last THEN FALSE ELSE @,
             !.lastSortValue = cursor,
             !.progress = IF cursor # Null
                          THEN Append(@, progressOf(cursor, d.startMs, d.stopMs))
                          ELSE @], flag)

\* a failed page that gives back what was gathered
pageFailsReturnsPartial(d, msg) ==
    [d EXCEPT !.pc = "returned", !.ret = d.allResults]

\* the fetch rejected, the status was not OK or the body was not JSON:
\* the catch throws a new error
pageFails(d, msg) ==
    [d EXCEPT !.pc = "thrown", !.err = FetchFailedMsg(msg)]

Caps == {(k * CHUNK_SIZE) \div 2 : k \in 1..(2 * MaxPages)}
SortKeys(d) == {d.startMs + 25, d.startMs + 75}

InitDrain ==
    /\ PoolIdle
    /\ gobj = NoCall /\ tc = NoCall /\ runs = NoCall
    /\ loadingCandles \in BOOLEAN
    /\ \E cap \in Caps :
          drain = [pc |-> "idle", fn |-> "none", maxTotalResults |-> cap,
                   startMs |-> 1000, stopMs |-> 1100,
                   allResults |-> <<>>, lastSortValue |-> Null, hasMore |-> TRUE,
                   totalFetched |-> 0, requests |-> <<>>, pages |-> <<>>,
                   progress |-> <<>>,
                   ret |-> <<>>, err |-> <<>>]

\* a caller starts a drain
CallDrain ==
    /\ drain.pc = "idle"
    /\ \E fn \in {"queryElasticsearchWithPagination", "getPoolSwaps"} :
          drain' = whileLoop([drain EXCEPT !.fn = fn], loadingCandles)
    /\ UNCHANGED <<poolVars, gobj, loadingCandles, tc, runs>>

\* the backend answers the page request
PageArrives ==
    /\ drain.pc = "fetch"
    /\ \E total \in {0, 1}, len \in {0, 1, CHUNK_SIZE}, sort \in SortKeys(drain) :
          /\ len > 0 => total > 0
          /\ drain' = pageArrives(drain, loadingCandles, total,
                                  [len |-> len, sort |-> sort, page |-> Len(drain.requests)])
    /\ UNCHANGED <<poolVars, gobj, loadingCandles, tc, runs>>

\* the page request fails
PageFails ==
    /\ drain.pc = "fetch"
    /\ \E msg \in FetchErrors : drain' = pageFails(drain, msg)
    /\ UNCHANGED <<poolVars, gobj, loadingCandles, tc, runs>>

\* another handler of the page sets or clears loadingCandles
SetLoadingCandles ==
    /\ drain.pc = "fetch"
    /\ loadingCandles' = ~loadingCandles
    /\ UNCHANGED <<poolVars, gobj, drain, tc, runs>>

NextDrain == CallDrain \/ PageArrives \/ PageFails \/ SetLoadingCandles

SpecDrain == InitDrain /\ [][NextDrain]_vars

\* every page request is answered or fails
SpecDrainFair == SpecDrain /\ WF_vars(PageArrives \/ PageFails)

\* ------------------------------------------------ tradesToCandles (main.js)
\* A trade is [timestamp, price, volume]: a time in ms and two positive
\* numbers (the parsers keep only trades with positive amounts).  A candle
\* is the object the function builds.
NoClose == 0 - 1

RECURSIVE sortTrades(_)
\* [...trades].sort((a, b) => a[0] - b[0]): stable, by insertion from the left
sortTrades(trades) ==
    IF trades = <<>> THEN <<>>
    ELSE LET rest == sortTrades(SubSeq(trades, 1, Len(trades) - 1))
             t == trades[Len(trades)]
             before == {k \in DOMAIN rest : rest[k][1] <= t[1]}
             n == Cardinality(before)
         IN SubSeq(rest, 1, n) \o <<t>> \o SubSeq(rest, n + 1, Len(rest))

\* Math.ceil(timestamp / timeframeMs) * timeframeMs
candleTimeCeil(timestamp, timeframeMs) ==
    ((timestamp + timeframeMs - 1) \div timeframeMs) * timeframeMs

\* Math.floor(timestamp / timeframeMs) * timeframeMs
candleTime(timestamp, timeframeMs) == (timestamp \div timeframeMs) * timeframeMs

\* the high of a candle stays at its first price
MaxFirst(a, b) == a

Max(a, b) == IF a > b THEN a ELSE b

RECURSIVE firstPass(_, _)
\* the candles of the buckets that have trades, in the order the Map got them
firstPass(sortedTrades, timeframeMs) ==
    IF sortedTrades = <<>> THEN <<>>
    ELSE LET map == firstPass(SubSeq(sortedTrades, 1, Len(sortedTrades) - 1), timeframeMs)
             t == sortedTrades[Len(sortedTrades)]
             time == candleTime(t[1], timeframeMs)
         IN
         IF \E k \in DOMAIN map : map[k].timestamp = time
         THEN [k \in DOMAIN map |->
                  IF map[k].timestamp = time
                  THEN [map[k] EXCEPT !.high = Max(@, t[2]), !.low = Min(@, t[2]),
                                      !.close = t[2], !.volume = @ + t[3]]
                  ELSE map[k]]
         ELSE Append(map, [timestamp |-> time, open |-> t[2], high |-> t[2],
                           low |-> t[2], close |-> t[2], volume |-> t[3]])

RECURSIVE sortCandles(_)
\* Array.from(candleMap.values()).sort((a, b) => a.timestamp - b.timestamp)
sortCandles(cs) ==
    IF cs = <<>> THEN <<>>
    ELSE LET rest == sortCandles(SubSeq(cs, 1, Len(cs) - 1))
             c == cs[Len(cs)]
             n == Cardinality({k \in DOMAIN rest : rest[k].timestamp <= c.timestamp})
         IN SubSeq(rest, 1, n) \o <<c>> \o SubSeq(rest, n + 1, Len(rest))

\* the candle of an empty bucket is always the zero candle
emptyCandleZero(currentTime, lastClose) ==
    [timestamp |-> currentTime, open |-> 0, high |-> 0, low |-> 0, close |-> 0, volume |-> 0]

\* the candle pushed for a bucket without trades
emptyCandle(currentTime, lastClose) ==
    IF lastClose # NoClose
    THEN [timestamp |-> currentTime, open |-> lastClose, high |-> lastClose,
          low |-> lastClose, close |-> lastClose, volume |-> 0]
    ELSE [timestamp |-> currentTime, open |-> 0, high |-> 0, low |-> 0, close |-> 0,
          volume |-> 0]

\* the loop steps over every other bucket
nextTimeSkipping(currentTime, timeframeMs) == currentTime + 2 * timeframeMs

\* currentTime += timeframeMs
nextTime(currentTime, timeframeMs) == currentTime + timeframeMs

RECURSIVE secondPass(_, _, _, _, _, _)
\* while (currentTime <= lastTimestamp) { ... }
secondPass(candlesWithTrades, currentIndex, currentTime, lastClose, lastTimestamp, timeframeMs) ==
    IF currentTime > lastTimestamp THEN <<>>
    ELSE IF /\ currentIndex < Len(candlesWithTrades)
            /\ candlesWithTrades[currentIndex + 1].timestamp = currentTime
         THEN <<candlesWithTrades[currentIndex + 1]>> \o
              secondPass(candlesWithTrades, currentIndex + 1, nextTime(currentTime, timeframeMs),
                         candlesWithTrades[currentIndex + 1].close, lastTimestamp, timeframeMs)
         ELSE <<emptyCandle(currentTime, lastClose)>> \o
              secondPass(candlesWithTrades, currentIndex, nextTime(currentTime, timeframeMs),
                         lastClose, lastTimestamp, timeframeMs)

tradesToCandles(trades, timeframeSeconds) ==
    IF trades = <<>> THEN <<>>
    ELSE LET timeframeMs == timeframeSeconds * 1000
             candlesWithTrades == sortCandles(firstPass(sortTrades(trades), timeframeMs))
         IN
         IF candlesWithTrades = <<>> THEN <<>>
         ELSE secondPass(candlesWithTrades, 0, candlesWithTrades[1].timestamp, NoClose,
                         candlesWithTrades[Len(candlesWithTrades)].timestamp, timeframeMs)

Timestamps == {999, 1000, 3500, 4000}
Prices == {1, 2, 3}
Volumes == {5}
Timeframes == {1, 2}
\* three trades in two one-minute buckets, two of them at the same time
ExampleTrades == <<<<1000, 10, 1>>, <<1000, 12, 1>>, <<61000, 11, 2>>>>
TradeLists == UNION {[1..n -> Timestamps \X Prices \X Volumes] : n \in 0..MaxTrades}

InitCandles ==
    /\ PoolIdle
    /\ gobj = NoCall /\ drain = NoCall /\ loadingCandles = FALSE /\ runs = NoCall
    /\ \/ \E trades \in TradeLists, timeframeSeconds \in Timeframes :
             tc = [pc |-> "idle", trades |-> trades, timeframeSeconds |-> timeframeSeconds,
                   ret |-> <<>>]
       \/ tc = [pc |-> "idle", trades |-> ExampleTrades, timeframeSeconds |-> 60,
                ret |-> <<>>]

\* a caller invokes tradesToCandles(trades, timeframeSeconds)
CallTradesToCandles ==
    /\ tc.pc = "idle"
    /\ tc' = [tc EXCEPT !.pc = "returned",
                        !.ret = tradesToCandles(tc.trades, tc.timeframeSeconds)]
    /\ UNCHANGED <<poolVars, gobj, drain, loadingCandles, runs>>

NextCandles == CallTradesToCandles

SpecCandles == InitCandles /\ [][NextCandles]_vars

\* ------------------------------------------------ updateChart (books.js)
\* The runs of updateChart that the page's handlers start: each looks up the
\* two assets, drains the swaps of the pair with
\* queryElasticsearchWithPagination and renders the candles of the hits.
\* All runs share loadingCandles.  The backend holds at most MaxPages pages.
Runs == 1..NumRuns

\* the handlers that call updateChart
Triggers == {"update", "checkVisibleRange", "resetStartTime"}

\* the locals of queryElasticsearchWithPagination as getAssetPairSwaps calls it
NewDrain ==
    [pc |-> "idle", fn |-> "queryElasticsearchWithPagination",
     maxTotalResults |-> DefaultCap, startMs |-> 1000, stopMs |-> 1100,
     allResults |-> <<>>, lastSortValue |-> Null, hasMore |-> TRUE,
     totalFetched |-> 0, requests |-> <<>>, pages |-> <<>>, progress |-> <<>>,
     ret |-> <<>>, err |-> <<>>]

\* pc: where the run is; trigger: the handler that started it; d: its
\* drain; hits: what it rendered the chart from
IdleRun == [pc |-> "idle", trigger |-> "none", d |-> NewDrain, hits |-> <<>>]

\* updateChart after "await getAssetPairSwaps(...)": the candles of the hits
\* are rendered and loadingCandles is cleared; an error of the drain leaves
\* the function before that
afterDrain(run, flag) ==
    CASE run.d.pc = "returned" ->
            [run |-> [run EXCEPT !.pc = "rendered", !.hits = run.d.ret], flag |-> FALSE]
      [] run.d.pc = "thrown" -> [run |-> [run EXCEPT !.pc = "thrown"], flag |-> flag]
      [] OTHER -> [run |-> [run EXCEPT !.pc = "drain"], flag |-> flag]

InitCharts ==
    /\ PoolIdle
    /\ gobj = NoCall /\ drain = NoCall /\ tc = NoCall
    /\ loadingCandles = FALSE
    /\ runs = [r \in Runs |-> IdleRun]

\* a handler calls updateChart(), which sets loadingCandles and awaits the
\* lookup of the assets; resetStartTime clears loadingCandles when the call
\* has returned
StartRun(r) ==
    /\ runs[r].pc = "idle" /\ \A q \in Runs : q < r => runs[q].pc # "idle"
    /\ \E trigger \in Triggers :
          /\ runs' = [runs EXCEPT ![r].pc = "lookup", ![r].trigger = trigger]
          /\ loadingCandles' = (trigger # "resetStartTime")
    /\ UNCHANGED <<poolVars, gobj, drain, tc>>

\* getObjectsByName has resolved: an asset it did not find ends the run with
\* an error message; otherwise the drain starts
LookupResolves(r) ==
    /\ runs[r].pc = "lookup"
    /\ \E found \in BOOLEAN :
          IF found
          THEN LET x == afterDrain([runs[r] EXCEPT !.d = whileLoop(NewDrain, loadingCandles)],
                                   loadingCandles)
               IN runs' = [runs EXCEPT ![r] = x.run] /\ loadingCandles' = x.flag
          ELSE runs' = [runs EXCEPT ![r].pc = "invalid"] /\ UNCHANGED loadingCandles
    /\ UNCHANGED <<poolVars, gobj, drain, tc>>

\* the backend answers the page request of run r
RunPageArrives(r) ==
    /\ runs[r].pc = "drain"
    /\ \E total \in {0, 1}, len \in {0, 1, CHUNK_SIZE}, sort \in SortKeys(runs[r].d) :
          /\ len > 0 => total > 0
          /\ len = CHUNK_SIZE => Len(runs[r].d.pages) + 1 < MaxPages
          /\ LET hits == [len |-> len, sort |-> sort, page |-> Len(runs[r].d.requests)]
                 x == afterDrain([runs[r] EXCEPT
                                     !.d = pageArrives(@, loadingCandles, total, hits)],
                                 loadingCandles)
             IN runs' = [runs EXCEPT ![r] = x.run] /\ loadingCandles' = x.flag
    /\ UNCHANGED <<poolVars, gobj, drain, tc>>

\* the page request of run r fails
RunPageFails(r) ==
    /\ runs[r].pc = "drain"
    /\ \E msg \in FetchErrors :
          LET x == afterDrain([runs[r] EXCEPT !.d = pageFails(@, msg)], loadingCandles)
          IN runs' = [runs EXCEPT ![r] = x.run] /\ loadingCandles' = x.flag
    /\ UNCHANGED <<poolVars, gobj, drain, tc>>

NextCharts ==
    \E r \in Runs :
        \/ StartRun(r)
        \/ LookupResolves(r)
        \/ RunPageArrives(r)
        \/ RunPageFails(r)

SpecCharts == InitCharts /\ [][NextCharts]_vars

TypeOK ==
    /\ currentNodeIndex \in 0..(nodes - 1)
    /\ activeInstance \in 0..ninst
    /\ ninst \in 0..MaxSockets /\ nsock \in ninst..MaxSockets
    /\ isConnecting \in BOOLEAN

\* ------------------------------------------------------------ properties
Rotating == {c \in Callers : task[c].pc \in {"rot_hs", "rot_sleep"}}
Waiting == {c \in Callers : task[c].pc = "waiting"}
Live == {i \in 1..ninst : inst[i].ws \in {"connecting", "open"}}

\* C1 (single-flight connect): the tasks that are connecting or waiting for a
\* connection all hang on one lock, exactly one of them runs the rotation,
\* and the getActiveInstance() calls that hung on the same lock have ended
\* with the same outcome: the same instance, or the same error.
C1_SingleFlight ==
    /\ \A c, d \in Rotating \cup Waiting : task[c].wlock = task[d].wlock
    /\ Waiting # {} => Cardinality(Rotating) = 1
    /\ \A c, d \in Callers :
          (/\ task[c].pc = "idle" /\ task[d].pc = "idle"
           /\ task[c].op = "get" /\ task[d].op = "get"
           /\ task[c].wlock # Null /\ task[c].wlock = task[d].wlock)
          => task[c].res = task[d].res

\* two getActiveInstance() calls shared one attempt and both got its instance
C1_Witness ==
    /\ task[1].pc = "idle" /\ task[2].pc = "idle"
    /\ task[1].op = "get" /\ task[2].op = "get"
    /\ task[1].wlock # Null /\ task[1].wlock = task[2].wlock
    /\ task[1].res.k = "instance" /\ task[1].res.v # Null
    /\ nlocks = 1 /\ ninst >= 2

\* C2: at most one execution of _connectToNextNodeInternal is in progress.
C2_OneAttempt == Cardinality(Rotating) <= 1

\* a proxied call met the attempt of a getActiveInstance() call and joined it
C2_Witness ==
    \E c, d \in Callers :
        /\ task[c].pc \in {"rot_hs", "rot_sleep"} /\ task[c].op = "get"
        /\ task[d].pc = "waiting" /\ task[d].op = "call" /\ task[d].retryCount = 0

\* C3: at most one transport created by the pool is open or handshaking.
C3_OneLiveConnection == Cardinality(Live) <= 1

FailedCalls(i) ==
    {c \in Callers : /\ task[c].op = "call" /\ task[c].cur = i /\ task[c].retryCount >= 1
                     /\ isConnectionError(task[c].lastError)}

\* C4: a failover is run only by a call whose instance is still the active
\* one; it retires that instance and moves currentNodeIndex to the next
\* endpoint, and the index stays there when that endpoint accepts; no
\* instance is failed over twice, however many calls failed on it.
C4_FailoverOnce ==
    /\ [](\A i \in InstIds : failovers[i] <= 1)
    /\ [][failovers' # failovers =>
            \E c \in Callers :
               /\ task[c].pc \in {"call_wait", "catch"}
               /\ task[c].cur = activeInstance
               /\ failovers' = [failovers EXCEPT ![task[c].cur] = @ + 1]
               /\ currentNodeIndex' = (currentNodeIndex + 1) % nodes
               /\ activeInstance' # task[c].cur
               /\ ~inst'[task[c].cur].connected]_vars
    /\ [][\A c \in Callers :
            (/\ task[c].pc = "rot_hs" /\ task[c].frame = "failover"
             /\ Len(task[c].rtried) = 1
             /\ task'[c].pc # "rot_hs" /\ inst[task[c].rinst].cp = "resolved")
            => /\ currentNodeIndex' = currentNodeIndex
               /\ currentNodeIndex = task[c].rtried[1]
               /\ activeInstance' = task[c].rinst]_vars

\* two calls failed on instance 1 with a connection error, one failover ran
C4_Witness ==
    /\ nodes >= 2 /\ ninst = 2 /\ failovers[1] = 1
    /\ FailedCalls(1) = {1, 2}
    /\ currentNodeIndex = 1 /\ activeInstance = 2 /\ inst[2].url = 1

EndpointZeroAlwaysFails == \A i \in 1..ninst : inst[i].url = 0 => ~inst[i].everOpen
EndpointOneSucceeds == \A i \in 1..ninst : inst[i].url = 1 => inst[i].cp # "rejected"

\* C5: with three endpoints, an attempt started at index 0, endpoint 0 always
\* failing and endpoint 1 succeeding: the attempt tries endpoint 0, then
\* endpoint 1, never endpoint 2, and when it completes currentNodeIndex is 1
\* and the active instance is connected to endpoint 1.
C5_FirstSuccessStops ==
    /\ [](\A c \in Rotating :
            (/\ nodes = 3 /\ task[c].rtried[1] = 0
             /\ EndpointZeroAlwaysFails /\ EndpointOneSucceeds)
            => task[c].rtried \in {<<0>>, <<0, 1>>})
    /\ [][\A c \in Rotating :
            (/\ nodes = 3 /\ task[c].rtried[1] = 0
             /\ EndpointZeroAlwaysFails /\ EndpointOneSucceeds
             /\ task'[c].pc \notin {"rot_hs", "rot_sleep"})
            => /\ task[c].rtried = <<0, 1>>
               /\ currentNodeIndex' = 1
               /\ activeInstance' = task[c].rinst
               /\ inst'[activeInstance'].url = 1
               /\ inst'[activeInstance'].connected
               /\ ~isConnecting']_vars

\* the attempt of C5 has completed for a getActiveInstance() call
C5_Witness ==
    /\ nodes = 3 /\ ninst = 2 /\ nsock = 2 /\ ~isConnecting
    /\ inst[1].url = 0 /\ inst[1].cp = "rejected"
    /\ inst[2].url = 1 /\ inst[2].connected
    /\ currentNodeIndex = 1 /\ activeInstance = 2
    /\ task[1].pc = "idle" /\ task[1].op = "get" /\ task[1].res = Instance(2)

\* C6: a proxied call that ends with a connection-class error ends with the
\* retries-exhausted error.
C6_OnlyRetriesExhausted ==
    \A c \in Callers :
        (/\ task[c].pc = "idle" /\ task[c].op = "call" /\ task[c].res.k = "error"
         /\ isConnectionError(task[c].res.err))
        => task[c].res.err[1] = "RPC call failed after 3 retries: "

\* C7: a proxied call is not retried after an error that matches no
\* connection-error pattern: it never sleeps towards another attempt after
\* such an error, and the retries-exhausted error never wraps one.
C7_NoRetryOfOtherErrors ==
    \A c \in Callers :
        /\ task[c].pc = "call_sleep" => isConnectionError(task[c].lastError)
        /\ (task[c].pc = "idle" /\ task[c].op = "call" /\ task[c].res.k = "error"
            /\ task[c].res.err[1] = "RPC call failed after 3 retries: ")
           => isConnectionError(Tail(task[c].res.err))

DataFailure(c) ==
    /\ task[c].pc = "call_wait"
    /\ \/ task'[c].lastError \in DataErrors
       \/ /\ task'[c].pc = "idle"
          /\ \E d \in DataErrors : task'[c].res = Err(RetryExhaustedMsg(d))

\* C8: the step in which a proxied call fails with a data-level error ("zero
\* price in history", "no history") changes neither currentNodeIndex nor the
\* active instance nor any instance nor any failure counter.
C8_DataErrorNoFailover ==
    [][\A c \in Callers :
          DataFailure(c) => UNCHANGED <<currentNodeIndex, activeInstance, nodeHealth,
                                        failovers, inst, isConnecting, ninst>>]_vars

\* a call failed with a data-level error on a connected active instance
C8_Witness ==
    \E c \in Callers :
        /\ task[c].pc = "call_sleep" /\ task[c].lastError \in DataErrors
        /\ task[c].cur = activeInstance /\ inst[activeInstance].connected

\* C9: switchToNextNode() called while a connection attempt is underway ends
\* with the cannot-switch error and changes nothing else.
C9_SwitchRefused ==
    [][\A c \in Callers :
          (CallSwitchToNextNode(c) /\ Rotating # {})
          => /\ task'[c].pc = "idle" /\ task'[c].res = Err(CannotSwitchMsg)
             /\ \A d \in Callers \ {c} : task'[d] = task[d]
             /\ UNCHANGED <<currentNodeIndex, activeInstance, isConnecting, connectionLock,
                            connectionQueue, nodeHealth, inst, ninst, nsock>>]_vars

\* a switchToNextNode() was refused and the attempt it met is still running
C9_Witness ==
    \E c, d \in Callers :
        /\ task[c].pc = "idle" /\ task[c].op = "switch"
        /\ task[c].res = Err(CannotSwitchMsg)
        /\ task[d].pc = "rot_hs" /\ activeInstance = task[d].rinst

\* C10: a connection attempt started at index i tries the endpoints i, i+1,
\* ... (mod n) in that order, each at most once.
C10_RotationOrder ==
    \A c \in Rotating :
        \A k \in DOMAIN task[c].rtried :
            task[c].rtried[k] = (task[c].rtried[1] + k - 1) % nodes

CallSuccess(c) ==
    task[c].pc = "call_wait" /\ task'[c].pc = "idle" /\ task'[c].res = Result

\* C11: the step in which a pooled call succeeds sets consecutiveFailures
\* of the endpoint that served it to 0 and its lastSuccess to the time of the
\* step, and leaves the record of every other endpoint as it was.
C11_SuccessMarksServingNode ==
    [][\A c \in Callers :
          CallSuccess(c) =>
             LET url == inst[task[c].cur].url IN
             /\ nodeHealth'[url] = [nodeHealth[url] EXCEPT !.consecutiveFailures = 0,
                                                           !.lastSuccess = ops]
             /\ \A n \in DOMAIN nodeHealth \ {url} : nodeHealth'[n] = nodeHealth[n]]_vars

\* a call has succeeded on the second endpoint after a failover, later than
\* the connection to it was made
C11_Witness ==
    /\ nodes >= 2 /\ ops = 2 /\ activeInstance = 2 /\ inst[2].url = 1
    /\ \E c \in Callers : task[c].pc = "idle" /\ task[c].op = "call" /\ task[c].res = Result
    /\ nodeHealth[1].consecutiveFailures = 0 /\ nodeHealth[1].lastSuccess = 2
    /\ nodeHealth[0].consecutiveFailures = 1

\* C12: connect() called from outside while the attempt is in flight, or
\* after it has succeeded, returns the promise of that attempt and changes
\* nothing: no socket is made or closed.
C12_ConnectIdempotent ==
    [][\A i \in InstIds :
          (RpcConnect(i) /\ inst[i].connectionPromise \in {"pending", "resolved"})
          => inst'[i] = [inst[i] EXCEPT !.connects = @ + 1, !.got = "same"]]_vars

\* connect() was called during the first handshake, which is still running
C12_Witness ==
    /\ inst[1].connects = 1 /\ inst[1].got = "same"
    /\ inst[1].gen = 1 /\ inst[1].ws = "connecting" /\ inst[1].connectionPromise = "pending"
    /\ nsock = 1

\* C13: the handshake timer fires only on a socket that has not signalled
\* ready; when it fires on a disconnected instance the socket is closed,
\* connected is false and the promise of the attempt is rejected with the
\* connection-timeout error; a resolved promise is never rejected.
C13_HandshakeTimeout ==
    /\ [][\A i \in InstIds :
            (HandshakeTimeout(i) /\ ~inst[i].connected)
            => /\ inst[i].ws = "connecting" /\ inst'[i].ws = "closed"
               /\ inst'[i].evq = Append(inst[i].evq, [k |-> "failed", g |-> inst[i].gen])
               /\ ~inst'[i].connected
               /\ inst'[i].connectionPromise = "rejected"
               /\ inst[i].gen = 1 => (inst'[i].cp = "rejected" /\ inst'[i].cpErr = ConnTimeoutMsg)]_vars
    /\ [][\A i \in InstIds :
            (inst[i].connectionPromise = "resolved" /\ inst'[i].gen = inst[i].gen)
            => inst'[i].connectionPromise = "resolved"]_vars
    /\ [][\A i \in InstIds : inst[i].cp = "resolved" => inst'[i].cp = "resolved"]_vars

\* the first handshake has timed out
C13_Witness ==
    /\ inst[1].gen = 1 /\ inst[1].ws = "closed" /\ ~inst[1].connected
    /\ inst[1].cp = "rejected" /\ inst[1].cpErr = ConnTimeoutMsg
    /\ inst[1].connectionPromise = "rejected"

NoLiveTransport(r) == ~r.connected \/ r.ws # "open"

\* C14: query() on an instance that is not connected, or whose socket is
\* not open, is rejected at once with the not-connected error and changes
\* nothing else: no request is recorded (no listener, no timer, nothing
\* sent) and requestId stays as it is.
C14_QueryRefused ==
    [][\A i \in InstIds :
          (RpcQuery(i) /\ NoLiveTransport(inst[i]))
          => inst'[i] = [inst[i] EXCEPT !.refused = Append(@, NotConnectedMsg)]]_vars

\* a query was refused on an instance whose reconnect is still handshaking
C14_Witness ==
    /\ inst[1].refused = <<NotConnectedMsg>>
    /\ inst[1].reqs = <<>> /\ inst[1].requestId = 1
    /\ inst[1].ws = "connecting" /\ inst[1].gen = 2

Answered(q, hasResult) ==
    [q EXCEPT !.lis = FALSE,
              !.st = IF hasResult THEN "resolved" ELSE "rejected",
              !.err = IF hasResult THEN <<>> ELSE RpcErrorMsg]

\* C15: when a response arrives, a pending query with another requestId is
\* left as it is, and the pending query with that requestId is resolved if
\* the response has a result and rejected if it has none.
C15_MatchedById ==
    [][\A i \in InstIds, id \in 1..MaxRequests, hasResult \in BOOLEAN :
          (inst[i].ws = "open" /\ SetInst(i, listener(inst[i], id, hasResult)))
          => \A k \in DOMAIN inst[i].reqs :
                LET q == inst[i].reqs[k] IN
                /\ q.id # id => inst'[i].reqs[k] = q
                /\ (q.id = id /\ q.st = "pending" /\ q.lis /\ q.g = inst[i].gen)
                   => inst'[i].reqs[k] = Answered(q, hasResult)]_vars

\* two queries were pending on one socket; the second was answered first
C15_Witness ==
    /\ Len(inst[1].reqs) = 2 /\ inst[1].reqs[1].g = inst[1].reqs[2].g
    /\ ~inst[1].reqs[1].ping /\ ~inst[1].reqs[2].ping
    /\ inst[1].reqs[1].st = "pending" /\ inst[1].reqs[1].lis /\ inst[1].reqs[1].tmr
    /\ inst[1].reqs[2].st = "resolved"

\* C17: the requestIds of the queries an instance has sent are strictly
\* increasing in the order they were sent, and all below this.requestId.
C17_RequestIdsIncrease ==
    \A i \in InstIds :
        /\ \A j, k \in DOMAIN inst[i].reqs : j < k => inst[i].reqs[j].id < inst[i].reqs[k].id
        /\ \A k \in DOMAIN inst[i].reqs : inst[i].reqs[k].id < inst[i].requestId

\* one query was sent before and one after an automatic reconnect
C17_Witness ==
    /\ Len(inst[1].reqs) = 2
    /\ inst[1].reqs[1].g = 1 /\ inst[1].reqs[2].g = 2
    /\ ~inst[1].reqs[1].ping /\ ~inst[1].reqs[2].ping

\* the matching response of request q has arrived
GotResponse(q) == q.st = "resolved" \/ q.err = RpcErrorMsg

\* C16: when the timer of a query fires and no matching response has
\* arrived, the query is rejected with the request-timeout error and its
\* listener is removed; a request that has timed out never changes again,
\* whatever arrives later; a settled query keeps its outcome; and every
\* query that was sent settles eventually.
C16_TimeoutSettles ==
    /\ [][\A i \in InstIds, k \in 1..MaxRequests :
             (RpcRequestTimeout(i, k) /\ ~GotResponse(inst[i].reqs[k]))
             => /\ inst'[i].reqs[k].st = "rejected"
                /\ inst'[i].reqs[k].err = RequestTimeoutMsg
                /\ ~inst'[i].reqs[k].lis]_vars
    /\ [][\A i \in InstIds : \A k \in DOMAIN inst[i].reqs :
             (~inst[i].reqs[k].tmr /\ inst[i].reqs[k].err = RequestTimeoutMsg)
             => inst'[i].reqs[k] = inst[i].reqs[k]]_vars
    /\ [][\A i \in InstIds : \A k \in DOMAIN inst[i].reqs :
             inst[i].reqs[k].st # "pending"
             => /\ inst'[i].reqs[k].st = inst[i].reqs[k].st
                /\ inst'[i].reqs[k].err = inst[i].reqs[k].err]_vars
    /\ \A k \in 1..MaxRequests :
          (Len(inst[1].reqs) >= k) ~> (Len(inst[1].reqs) >= k /\ inst[1].reqs[k].st # "pending")

\* the query of a keepalive probe of r fails in this step
ProbeFails(i) ==
    \E k \in DOMAIN inst[i].reqs :
        /\ inst[i].reqs[k].ping /\ inst[i].reqs[k].st = "pending"
        /\ inst'[i].reqs[k].st = "rejected"

\* C18: when the query of a keepalive probe fails while the instance is
\* connected, the instance takes the connection-error path (connected
\* becomes false, the keepalive stops, a reconnect is scheduled) and no
\* successful ping is recorded.
C18_FailedProbeIsConnectionError ==
    [][\A i \in InstIds :
          (inst[i].connected /\ ProbeFails(i))
          => /\ ~inst'[i].connected
             /\ ~inst'[i].pingInterval
             /\ inst'[i].rcTimers = inst[i].rcTimers + 1
             /\ inst'[i].pings = inst[i].pings]_vars

\* this step is a transport error of instance i, a handshake timeout, or a
\* close of its socket with a code other than 1000
UnexpectedCloseOrError(i) ==
    \/ WsFail(i)
    \/ HandshakeTimeout(i) /\ ~inst[i].connected
    \/ /\ WsServerClose(i)
       /\ inst'[i] = handleConnectionClose([inst[i] EXCEPT !.ws = "closed"], FALSE)
    \/ /\ DeliverEvent(i)
       /\ \/ Head(inst[i].evq).k = "failed"
          \/ inst'[i] = handleConnectionClose([inst[i] EXCEPT !.evq = Tail(@)], FALSE)

Exhausted(r) ==
    /\ r.reconnectAttempts >= maxReconnectAttempts
    /\ r.ws = "closed" /\ ~r.connected
    /\ r.rcTimers = 0 /\ r.evq = <<>>

\* C20: an instance that has used up its automatic reconnects opens no
\* socket by itself, and a call of connect() on it opens a new socket and
\* starts a handshake on it.
C20_ExternalConnectRestarts ==
    /\ [][\A i \in InstIds :
             (Exhausted(inst[i]) /\ inst'[i].connects = inst[i].connects)
             => inst'[i].gen = inst[i].gen /\ ~inst'[i].connected]_vars
    /\ [][\A i \in InstIds :
             (Exhausted(inst[i]) /\ RpcConnect(i))
             => /\ inst'[i].gen = inst[i].gen + 1
                /\ inst'[i].ws = "connecting"
                /\ inst'[i].connectionPromise = "pending"]_vars

\* C21: once close() has been called on an instance, the instance opens no
\* new socket, does not restart its keepalive and is not connected again,
\* whatever timers and socket events were pending when it was closed.
C21_CloseIsTerminal ==
    [][\A i \in InstIds :
          inst[i].userClosed
          => /\ inst'[i].gen = inst[i].gen
             /\ ~inst'[i].connected
             /\ ~inst'[i].pingInterval]_vars

Ceil(n, d) == (n + d - 1) \div d

RECURSIVE Sent(_, _)
\* the ids sent in the first n queries, in the order sent
Sent(calls, n) == IF n = 0 THEN <<>> ELSE Sent(calls, n - 1) \o calls[n].chunk

IsPrefix(a, b) == Len(a) <= Len(b) /\ a = SubSeq(b, 1, Len(a))

\* C22: getObjects on a list of N ids issues its queries one after another,
\* each with at most 90 ids; the chunks sent so far, put end to end, are the
\* beginning of the list, and when the call returns they are the whole list
\* and there were exactly ceil(N / 90) queries.
C22_Chunking ==
    gobj.pc \in {"await", "returned", "thrown"} =>
        LET N == Len(gobj.objectIds) IN
        /\ \A j \in DOMAIN gobj.calls :
              /\ Len(gobj.calls[j].chunk) \in 1..90
              /\ gobj.calls[j].st = "pending" => (j = Len(gobj.calls) /\ gobj.pc = "await")
        /\ IsPrefix(Sent(gobj.calls, Len(gobj.calls)), gobj.objectIds)
        /\ Len(gobj.calls) <= Ceil(N, 90)
        /\ gobj.pc = "returned" =>
              /\ Len(gobj.calls) = Ceil(N, 90)
              /\ Sent(gobj.calls, Len(gobj.calls)) = gobj.objectIds

\* a list of 181 ids went out in chunks of 90, 90 and 1
C22_Witness ==
    /\ gobj.pc = "returned" /\ Len(gobj.objectIds) = 181
    /\ Len(gobj.calls) = 3
    /\ Len(gobj.calls[1].chunk) = 90 /\ Len(gobj.calls[2].chunk) = 90
    /\ Len(gobj.calls[3].chunk) = 1

\* position p of the list was answered: its chunk's query resolved and the
\* result has a non-null entry at p's place in the chunk
Fetched(p) ==
    LET c == ((p - 1) \div 90) + 1
        k == ((p - 1) % 90) + 1
    IN
    /\ c <= Len(gobj.calls) /\ gobj.calls[c].st = "resolved"
    /\ k <= Len(gobj.calls[c].result) /\ gobj.calls[c].result[k] # Null

EntryAt(p) == gobj.calls[((p - 1) \div 90) + 1].result[((p - 1) % 90) + 1]

\* C23: getObjects and getObjectsByName never throw; a chunk whose query
\* fails is followed by the remaining chunks; and the mapping returned has
\* exactly the ids that were answered, each with the entry at its place.
C23_FailedChunkSkipped ==
    /\ gobj.pc # "thrown"
    /\ gobj.pc = "returned" =>
          /\ Len(gobj.calls) = Ceil(Len(gobj.objectIds), 90)
          /\ DOMAIN gobj.resultMap =
                {gobj.objectIds[p] : p \in {q \in DOMAIN gobj.objectIds : Fetched(q)}}
          /\ \A p \in DOMAIN gobj.objectIds :
                Fetched(p) => gobj.resultMap[gobj.objectIds[p]] = EntryAt(p)

\* getObjectsByName on 181 names: the first chunk failed, the second came
\* back one entry short and with nulls, the third came back whole
C23_Witness ==
    /\ gobj.pc = "returned" /\ gobj.method = "getObjectsByName"
    /\ Len(gobj.calls) = 3
    /\ gobj.calls[1].st = "rejected"
    /\ gobj.calls[2].st = "resolved" /\ Len(gobj.calls[2].result) = 89
    /\ gobj.calls[2].result[2] = Null
    /\ gobj.calls[3].st = "resolved"
    /\ DOMAIN gobj.resultMap = {p \in 91..179 : p % 2 = 1} \cup {181}

DrainOver == drain.pc \in {"returned", "thrown"}

\* C24: a drain whose backend has answered with a page of fewer than
\* CHUNK_SIZE hits has returned, and that page was the answer to its last
\* request; a drain whose first page reported a total of 0 has returned []
\* after that one request; and every drain that has requested a page
\* returns or throws in the end.
C24_DrainTerminates ==
    /\ [](\A k \in DOMAIN drain.pages :
             drain.pages[k].len < CHUNK_SIZE
             => /\ drain.pc = "returned"
                /\ k = Len(drain.pages) /\ Len(drain.requests) = k)
    /\ [](Len(drain.pages) >= 1 /\ drain.pages[1].total = 0
             => /\ drain.pc = "returned" /\ drain.ret = <<>>
                /\ Len(drain.requests) = 1)
    /\ (drain.pc = "fetch") ~> DrainOver

\* getPoolSwaps returned after two full pages and a page of one hit
C24_Witness ==
    /\ drain.pc = "returned" /\ drain.fn = "getPoolSwaps"
    /\ Len(drain.requests) = 3 /\ Len(drain.pages) = 3
    /\ drain.pages[1].len = CHUNK_SIZE /\ drain.pages[2].len = CHUNK_SIZE
    /\ drain.pages[3].len = 1
    /\ drain.totalFetched = 2 * CHUNK_SIZE + 1 /\ Len(drain.ret) = 3

Paginated == drain.fn = "queryElasticsearchWithPagination"

\* C25: queryElasticsearchWithPagination requests another page only when
\* the page before was full, fewer than cap hits are gathered and
\* loadingCandles is true.  A page that arrives is added to the hits
\* whatever loadingCandles is, and when loadingCandles is false by then the
\* drain returns every hit gathered, that page included, without an error.
C25_FlagBetweenPages ==
    /\ [][(Paginated /\ Len(drain.requests) >= 1 /\ Len(drain'.requests) > Len(drain.requests))
          => /\ drain'.pages[Len(drain'.pages)].len = CHUNK_SIZE
             /\ drain'.totalFetched < drain.maxTotalResults
             /\ loadingCandles]_vars
    /\ [][(Paginated /\ Len(drain'.pages) > Len(drain.pages)
           /\ ~(Len(drain.pages) = 0 /\ drain'.pages[1].total = 0))
          => LET page == drain'.pages[Len(drain'.pages)] IN
             /\ drain'.totalFetched = drain.totalFetched + page.len
             /\ page.len > 0 =>
                   /\ Len(drain'.allResults) = Len(drain.allResults) + 1
                   /\ drain'.allResults[Len(drain'.allResults)].len = page.len
                   /\ drain'.allResults[Len(drain'.allResults)].page = Len(drain'.pages)
             /\ ~loadingCandles =>
                   drain'.pc = "returned" /\ drain'.ret = drain'.allResults]_vars

\* loadingCandles was cleared while the first page was under way: the page,
\* a full one below the cap, was kept and the drain returned it
C25_Witness ==
    /\ Paginated /\ drain.pc = "returned" /\ ~loadingCandles
    /\ Len(drain.requests) = 1 /\ Len(drain.pages) = 1
    /\ drain.pages[1].len = CHUNK_SIZE /\ drain.totalFetched < drain.maxTotalResults
    /\ Len(drain.ret) = 1 /\ drain.ret[1].len = CHUNK_SIZE

\* C26: the first page request of queryElasticsearchWithPagination is built
\* with a null cursor and every later one with the sort key of the last hit
\* of the page just before it; the hits gathered are the pages' hits, in
\* the order the pages were fetched.
C26_CursorContract ==
    Paginated =>
        /\ Len(drain.requests) >= 1 => drain.requests[1] = Null
        /\ \A k \in 2..Len(drain.requests) : drain.requests[k] = drain.pages[k - 1].sort
        /\ \A j \in DOMAIN drain.allResults :
              LET b == drain.allResults[j] IN
              /\ b.page \in DOMAIN drain.pages
              /\ b.len = drain.pages[b.page].len /\ b.sort = drain.pages[b.page].sort
              /\ j > 1 => drain.allResults[j - 1].page < b.page
        /\ \A k \in DOMAIN drain.pages :
              (drain.pages[k].len > 0 /\ ~(k = 1 /\ drain.pages[1].total = 0))
              => \E j \in DOMAIN drain.allResults : drain.allResults[j].page = k

\* three pages, the second and third asked for with the sort key that
\* ended the page before
C26_Witness ==
    /\ Paginated /\ drain.pc = "returned"
    /\ drain.requests = <<Null, drain.startMs + 75, drain.startMs + 25>>
    /\ drain.pages[1].sort = drain.startMs + 75 /\ drain.pages[2].sort = drain.startMs + 25
    /\ Len(drain.ret) = 3
    /\ drain.ret[1].page = 1 /\ drain.ret[2].page = 2 /\ drain.ret[3].page = 3

\* C27: when a page request of queryElasticsearchWithPagination fails, the
\* drain throws an error, gives back none of the hits gathered before, and
\* requests no further page.
C27_FailureDiscardsAll ==
    /\ [][(Paginated /\ drain.pc = "fetch" /\ Len(drain'.pages) = Len(drain.pages)
           /\ drain' # drain)
          => /\ drain'.pc = "thrown" /\ drain'.ret = <<>>
             /\ \E msg \in FetchErrors : drain'.err = FetchFailedMsg(msg)
             /\ drain'.requests = drain.requests]_vars
    /\ [][drain.pc = "thrown" => drain' = drain]_vars

\* the third page request failed after two full pages had been gathered
C27_Witness ==
    /\ Paginated /\ drain.pc = "thrown" /\ drain.ret = <<>>
    /\ drain.err = FetchFailedMsg(<<"Elasticsearch error: ">>)
    /\ Len(drain.requests) = 3 /\ Len(drain.pages) = 2
    /\ drain.totalFetched = 2 * CHUNK_SIZE /\ Len(drain.allResults) = 2

\* C28: after each page with hits that a drain fetches, one progress
\* report is made, and its value is computed from the sort key of the last
\* hit of that page, startMs and stopMs.
C28_ProgressAfterEachPage ==
    [][(Len(drain'.pages) > Len(drain.pages) /\ drain'.pages[Len(drain'.pages)].len > 0)
       => /\ Len(drain'.progress) = Len(drain.progress) + 1
          /\ drain'.progress[Len(drain'.progress)] =
                progressOf(drain'.pages[Len(drain'.pages)].sort, drain.startMs, drain.stopMs)]_vars

\* the start of the bucket of size ms (a whole number of seconds) that time
\* ts falls in
BucketOf(ts, ms) ==
    CHOOSE b \in {n * ms : n \in 0..(ts \div 1000)} : b <= ts /\ ts < b + ms

TradeBuckets == {BucketOf(tc.trades[k][1], tc.timeframeSeconds * 1000) : k \in DOMAIN tc.trades}
FirstBucket == CHOOSE b \in TradeBuckets : \A c \in TradeBuckets : b <= c
LastBucket == CHOOSE b \in TradeBuckets : \A c \in TradeBuckets : c <= b

\* C29: tradesToCandles of no trades is the empty list; of a non-empty list
\* it is one candle per bucket from the bucket of the earliest trade to the
\* bucket of the latest, in ascending order with none missing or repeated:
\* (lastBucket - firstBucket) / bucketSize + 1 candles.
C29_OneCandlePerBucket ==
    tc.pc = "returned" =>
        IF tc.trades = <<>> THEN tc.ret = <<>>
        ELSE LET ms == tc.timeframeSeconds * 1000 IN
             /\ Len(tc.ret) = ((LastBucket - FirstBucket) \div ms) + 1
             /\ \A k \in DOMAIN tc.ret : tc.ret[k].timestamp = FirstBucket + (k - 1) * ms

\* trades at 999 ms and 4000 ms in buckets of one second: five candles
C29_Witness ==
    /\ tc.pc = "returned" /\ tc.timeframeSeconds = 1 /\ Len(tc.trades) = 2
    /\ tc.trades[1][1] = 4000 /\ tc.trades[2][1] = 999
    /\ Len(tc.ret) = 5 /\ tc.ret[1].timestamp = 0 /\ tc.ret[5].timestamp = 4000

HasTrades(k) == tc.ret[k].timestamp \in TradeBuckets

\* C30: a candle of a bucket without trades has volume 0 and open, high,
\* low and close equal to the close of the nearest candle before it whose
\* bucket has trades; the first candle's bucket has trades, and no candle
\* has open = high = low = close = 0.
C30_CarryForward ==
    (tc.pc = "returned" /\ tc.ret # <<>>) =>
        /\ HasTrades(1)
        /\ \A k \in DOMAIN tc.ret :
              /\ ~(tc.ret[k].open = 0 /\ tc.ret[k].high = 0 /\ tc.ret[k].low = 0
                   /\ tc.ret[k].close = 0)
              /\ ~HasTrades(k) =>
                    \E j \in 1..(k - 1) :
                        /\ HasTrades(j) /\ \A i \in (j + 1)..(k - 1) : ~HasTrades(i)
                        /\ tc.ret[k].volume = 0
                        /\ tc.ret[k].open = tc.ret[j].close /\ tc.ret[k].high = tc.ret[j].close
                        /\ tc.ret[k].low = tc.ret[j].close /\ tc.ret[k].close = tc.ret[j].close

\* two trades in the first bucket, the later one at price 3, and one trade
\* three buckets on: the two buckets between carry 3 forward
C30_Witness ==
    /\ tc.pc = "returned" /\ tc.timeframeSeconds = 1
    /\ tc.trades = <<<<1000, 1, 5>>, <<4000, 2, 5>>, <<1000, 3, 5>>>>
    /\ Len(tc.ret) = 4
    /\ tc.ret[1] = [timestamp |-> 1000, open |-> 1, high |-> 3, low |-> 1, close |-> 3,
                    volume |-> 10]
    /\ tc.ret[2] = [timestamp |-> 2000, open |-> 3, high |-> 3, low |-> 3, close |-> 3,
                    volume |-> 0]
    /\ tc.ret[3].volume = 0 /\ tc.ret[3].close = 3
    /\ tc.ret[4].close = 2

\* the positions in tc.trades of the trades of the bucket that starts at b
TradesOf(b) ==
    {k \in DOMAIN tc.trades : BucketOf(tc.trades[k][1], tc.timeframeSeconds * 1000) = b}

\* trade j comes before trade k: earlier, or at the same time and supplied first
Before(j, k) ==
    \/ tc.trades[j][1] < tc.trades[k][1]
    \/ tc.trades[j][1] = tc.trades[k][1] /\ j < k

RECURSIVE VolumeOf(_)
VolumeOf(ks) ==
    IF ks = {} THEN 0
    ELSE LET k == CHOOSE x \in ks : TRUE IN tc.trades[k][3] + VolumeOf(ks \ {k})

\* C31: the candle of a bucket that has trades opens at the price of the
\* bucket's earliest trade, closes at the price of its latest, has the
\* highest and the lowest of the bucket's prices as high and low, and the
\* sum of the bucket's volumes as volume.  The trades (1000,10,1),
\* (1000,12,1), (61000,11,2) in buckets of 60000 ms give the candles
\* {0,10,12,10,12,2} and {60000,11,11,11,11,2}.
C31_CandleOfBucket ==
    tc.pc = "returned" =>
        /\ \A c \in DOMAIN tc.ret :
              LET ks == TradesOf(tc.ret[c].timestamp) IN
              ks # {} =>
                 /\ \E k \in ks : /\ \A j \in ks \ {k} : Before(k, j)
                                  /\ tc.ret[c].open = tc.trades[k][2]
                 /\ \E k \in ks : /\ \A j \in ks \ {k} : Before(j, k)
                                  /\ tc.ret[c].close = tc.trades[k][2]
                 /\ \E k \in ks : tc.ret[c].high = tc.trades[k][2]
                 /\ \E k \in ks : tc.ret[c].low = tc.trades[k][2]
                 /\ \A k \in ks : tc.ret[c].low <= tc.trades[k][2]
                                  /\ tc.trades[k][2] <= tc.ret[c].high
                 /\ tc.ret[c].volume = VolumeOf(ks)
        /\ (tc.trades = ExampleTrades /\ tc.timeframeSeconds = 60) =>
              tc.ret = << [timestamp |-> 0, open |-> 10, high |-> 12, low |-> 10,
                           close |-> 12, volume |-> 2],
                          [timestamp |-> 60000, open |-> 11, high |-> 11, low |-> 11,
                           close |-> 11, volume |-> 2] >>

\* the candles of the example were computed
C31_Witness ==
    /\ tc.pc = "returned" /\ tc.trades = ExampleTrades /\ tc.timeframeSeconds = 60
    /\ Len(tc.ret) = 2 /\ tc.ret[1].high = 12 /\ tc.ret[1].close = 12

Reordered(p) == [k \in DOMAIN tc.trades |-> tc.trades[p[k]]]

\* C32: tradesToCandles returns the same candles for every ordering of the
\* same trades.
C32_OrderInsignificant ==
    tc.pc = "returned" =>
        \A p \in Permutations(DOMAIN tc.trades) :
            tradesToCandles(Reordered(p), tc.timeframeSeconds) = tc.ret

RECURSIVE Hits(_)
\* the number of hits in a sequence of pages
Hits(blocks) ==
    IF blocks = <<>> THEN 0 ELSE blocks[1].len + Hits(Tail(blocks))

\* C33: the hits a drain returns are at most maxTotalResults.
C33_CapBoundsResult ==
    drain.pc = "returned" => Hits(drain.ret) <= drain.maxTotalResults

\* C34: an instance has at most one reconnect timer pending, and a
\* reconnect timer that fires never closes a socket that is open: a single
\* failure of the transport, which delivers an error and a close event,
\* tears down no connection made after it.
C34_OneReconnectPending ==
    /\ [](\A i \in InstIds : inst[i].rcTimers <= 1)
    /\ [][\A i \in InstIds : RpcReconnectTimer(i) => inst[i].ws # "open"]_vars

\* C36: lastAttempted of an endpoint never decreases: the record an attempt
\* writes when it ends, on success or on failure, keeps the time the attempt
\* was made at.
C36_LastAttemptedKept ==
    [][\A n \in DOMAIN nodeHealth :
          nodeHealth'[n].lastAttempted >= nodeHealth[n].lastAttempted]_vars

\* C37: currentNodeIndex is an index of the endpoint list, a step changes it
\* by advancing it modulo the length of the list, and while the pool holds a
\* connected instance and is not connecting, that instance is the one of the
\* endpoint at currentNodeIndex.
C37_IndexNamesActiveNode ==
    /\ [](currentNodeIndex \in 0..(nodes - 1))
    /\ [][\E k \in 1..nodes : currentNodeIndex' = (currentNodeIndex + k) % nodes]_vars
    /\ []((activeInstance # Null /\ inst[activeInstance].connected /\ ~isConnecting)
            => inst[activeInstance].url = currentNodeIndex)

\* the rotations that close() has cut off from the pool's lock
CutOff == {c \in Rotating : task[c].wlock # connectionLock}

\* C35: close() during a connection attempt rejects every waiter with the
\* closed-by-user error; the attempt it interrupts installs no instance
\* afterwards; and no second rotation runs beside it.
C35_CloseEndsAttempt ==
    /\ [][CallClose => \A c \in Waiting :
                          /\ task'[c].pc = "idle"
                          /\ task'[c].res = Err(ClosedByUserMsg)]_vars
    /\ [][\A c \in CutOff :
             (ConnectSettled(c) \/ FailoverDelayOver(c))
             => activeInstance' \in {activeInstance, Null}]_vars
    /\ [](Cardinality(Rotating) <= 1)

\* every chunk query of the pooled bulk lookup of task c has failed with
\* "Not connected to node", and the lookup ends in this step
ChunksNotConnected(c) == task[c].pc = "objects_done" /\ task'[c].pc # "objects_done"

\* C38: when every chunk query of a pooled getObjects / getObjectsByName
\* fails with a connection error, the pool does not record a success for
\* the serving endpoint (consecutiveFailures is not reset, lastSuccess is
\* not updated) and runs a failover against the instance.
C38_BulkFailureNotSwallowed ==
    [][\A c \in Callers :
          ChunksNotConnected(c) =>
             LET i == task[c].cur
                 url == inst[i].url
             IN
             /\ nodeHealth'[url].lastSuccess = nodeHealth[url].lastSuccess
             /\ nodeHealth'[url].consecutiveFailures >= nodeHealth[url].consecutiveFailures
             /\ i = activeInstance => failovers'[i] = failovers[i] + 1]_vars

\* the rotation of task r ends in this step, with success or with every
\* endpoint failed
AttemptEnds(r) == ConnectSettled(r) /\ task'[r].pc # "rot_sleep"

\* C39: a getActiveInstance() call that waits on a connection attempt is
\* released, unless the attempt is stopped by the bound on sockets, and it is
\* released in the step the attempt it waits on ends, with the outcome of
\* that attempt; while no attempt is running the queue is empty,
\* isConnecting is false and connectionLock is null.
C39_WaitersReleased ==
    /\ \A c \in Callers :
          (task[c].pc = "waiting") ~> (task[c].pc # "waiting" \/ nsock >= MaxSockets)
    /\ [][\A c \in Callers :
             (task[c].pc = "waiting" /\ task'[c].pc # "waiting")
             => \E r \in Callers :
                   /\ task[r].wlock = task[c].wlock /\ AttemptEnds(r)
                   /\ (task[c].frame = "get" /\ task[r].frame = "get")
                      => task'[c].res = task'[r].res]_vars
    /\ [](Rotating = {} =>
             connectionQueue = <<>> /\ ~isConnecting /\ connectionLock = Null)

\* the drain d took every page there was: the backend had nothing, or the
\* last page came, or the cap was reached
Complete(d) ==
    \/ Len(d.pages) = 1 /\ d.pages[1].total = 0
    \/ ~d.hasMore
    \/ d.totalFetched >= d.maxTotalResults

\* C40: a chart is rendered from a complete drain: the runs that another
\* handler starts, completes or resets meanwhile do not cut the drain short.
\* (A run that resetStartTime started is left out: the reset was its own.)
C40_NoForeignCancellation ==
    \A r \in Runs :
        (runs[r].pc = "rendered" /\ runs[r].trigger # "resetStartTime")
        => Complete(runs[r].d)

====
